---- MODULE Spec2Model ----
(***************************************************************************)
(* Queue-driven ingestion service of module_6: the web publisher           *)
(* (dashboard.pull_data / update_analysis), the RabbitMQ queue tasks_q,    *)
(* the worker (consumer.main / _on_message and its two handlers), the      *)
(* PostgreSQL store (applicants, ingestion_watermarks, job_status) with    *)
(* its transactions, the incremental fetch loop (_scrape_until) and the    *)
(* batch ingestor (applicant_insert.insert_entries).                       *)
(***************************************************************************)
EXTENDS Integers, Sequences, FiniteSets, TLC

(***************************************************************************)
(* Bounds of the model.                                                    *)
(***************************************************************************)
\* Messages ever published to tasks_q (by the web service or anyone else).
MaxMsgs == 2
\* Listing pages before the last two pages of a source of the fetch runs.
MaxFill == 11
\* Records of a batch handed to insert_entries.
MaxBatch == 3
\* Pages a run of the dashboard's _scrape_new_rows is followed for.
MaxPage == 14

(***************************************************************************)
(* Program constants.                                                      *)
(***************************************************************************)
RABBITMQ_CONNECT_RETRIES == 30
RABBITMQ_CONNECT_DELAY_SECONDS == 2
PULL_TASK_NAME == "scrape_new_data"
ANALYTICS_TASK_NAME == "recompute_analytics"
\* _scrape_until(last_seen, max_pages=10)
max_pages == 10
\* should_commit=lambda index, _inserted, _errors: index % 100 == 0
commit_every == 100

Kinds == {PULL_TASK_NAME, ANALYTICS_TASK_NAME}
Workers == {1, 2}
Urls == {"u1", "u2", "u3"}
\* entry.get("url") of a record without a results link
NoUrl == ""
\* Python's None for a url-valued variable
None == "None"

(***************************************************************************)
(* The listing served by the external site, newest record first, as the    *)
(* sequence of its pages; every page is the sequence of the urls of the    *)
(* records _parse_page extracts from it.                                   *)
(***************************************************************************)
PlainSource == << <<"u2", "u1">> >>
\* two pages, a record without url, a url listed twice
RaggedSource == << <<"u3", NoUrl>>, <<"u3", "u1">> >>

\* Contents of the SEED_JSON file (<< >>: SEED_JSON unset or file missing).
NoSeedFile == << >>
SeedFile == <<NoUrl, "u1">>

\* The deployments explored: what the site lists and what the seed file holds.
Deployments ==
  { [source |-> PlainSource, seed |-> NoSeedFile],
    [source |-> PlainSource, seed |-> SeedFile],
    [source |-> RaggedSource, seed |-> SeedFile] }

VARIABLES
  source,       \* the external listing (pages of urls)
  seed,         \* rows of the SEED_JSON file
  applicants,   \* committed table applicants: url -> number of rows
  watermark,    \* committed ingestion_watermarks.last_seen of gradcafe_survey
  job_status,   \* committed table job_status: job_name -> row
  msgs,         \* bodies published so far; a message is named by its index
  queue,        \* tasks_q: indexes of the ready messages
  fate,         \* per message: ready / unacked / acked / nacked
  deliveries,   \* per message: number of deliveries
  outcome,      \* per message: how its handler last ended (none / raised /
                \* commit_failed / committed)
  web,          \* the web process: position in the request handler, response
  wk,           \* per worker: position, current message, open transaction
  fetcher,      \* a run of _scrape_until: position, locals, last page fetched
  ingest,       \* a run of _insert_cleaned_rows / insert_entries: position,
                \* locals, callback state, open transaction
  scraper,      \* a run of the dashboard's _scrape_new_rows: position, locals,
                \* the pages requested so far
  starter,      \* per worker: the broker connection loop of main, and whether
                \* the broker accepts connections
  pullsvc,      \* the in-process pull service: pull_status_state, the requests
                \* being handled and the runs of _run_pull_job
  parser,       \* a run of _parse_page: the rows of the page, the records
  publisher,    \* calls of the web service's publish_task: position, the
                \* connection at hand, connections left open, messages sent
  reader        \* a run of _get_pull_status_snapshot: the store as the read
                \* finds it, position, the snapshot returned

vars == <<source, seed, applicants, watermark, job_status,
          msgs, queue, fate, deliveries, outcome, web, wk, fetcher, ingest,
          scraper, starter, pullsvc, parser, publisher, reader>>

env == <<source, seed, fetcher, ingest, scraper, starter, pullsvc, parser,
        publisher, reader>>
store == <<applicants, watermark, job_status>>
broker == <<msgs, queue, fate, deliveries, outcome>>


(***************************************************************************)
(* Job status rows.                                                        *)
(***************************************************************************)
\* _default_progress()
DefaultProgress ==
  [processed |-> 0, inserted |-> 0, duplicates |-> 0, missing_urls |-> 0,
   errors |-> 0, pages_scraped |-> 0, current_page |-> None]

\* the progress argument of the Failed status written by _on_message
FailedProgress == [errors |-> 1]

\* the progress argument of the Completed status of handle_scrape_new_data
CompletedProgress(batch, inserted) ==
  [processed |-> Len(batch), inserted |-> inserted,
   duplicates |-> IF Len(batch) - inserted > 0 THEN Len(batch) - inserted ELSE 0,
   missing_urls |-> 0, errors |-> 0, pages_scraped |-> 0, current_page |-> None]

\* one row of job_status (job_name is the key it is stored under)
StatusRow(state, message, progress) ==
  [state |-> state, message |-> message, progress |-> progress]

\* no row stored under the key
NoRow == StatusRow("absent", "", DefaultProgress)

(***************************************************************************)
(* The incremental fetcher.                                                *)
(***************************************************************************)
\* last element of a listing that goes on without end: every page from
\* there on is a full page of urls that occur nowhere else
Endless == <<"...">>
IsEndless(src) == src # << >> /\ src[Len(src)] = Endless

\* _parse_page(_fetch_html(BASE_URL?page=n)): the records of page n
FetchPage(src, page) ==
  IF IsEndless(src) /\ page >= Len(src)
    THEN <<"f" \o ToString(page), "g" \o ToString(page)>>
  ELSE IF page <= Len(src) THEN src[page]
  ELSE << >>

\* next(idx for idx, entry in enumerate(parsed) if url == last_seen), 1-based;
\* 0 stands for None
StopIndex(parsed, last_seen) ==
  IF \E i \in 1..Len(parsed) : parsed[i] = last_seen
    THEN CHOOSE i \in 1..Len(parsed) :
           /\ parsed[i] = last_seen
           /\ \A j \in 1..(i - 1) : parsed[j] # last_seen
    ELSE 0

\* truthiness of a url-valued Python variable
Truthy(url) == url # None /\ url # NoUrl

\* an iteration that keeps the matching record as well
ScrapeIterKeepMatch(src, last_seen, page, rows) ==
  LET parsed == FetchPage(src, page)
      stop_index == IF Truthy(last_seen) THEN StopIndex(parsed, last_seen) ELSE 0
  IN  IF parsed = << >>
        THEN [rows |-> rows, page |-> page, done |-> TRUE]
      ELSE IF stop_index # 0
        THEN [rows |-> rows \o SubSeq(parsed, 1, stop_index),
              page |-> page, done |-> TRUE]
      ELSE [rows |-> rows \o parsed, page |-> page + 1, done |-> FALSE]

\* one iteration of the while loop of _scrape_until: the new rows, the next
\* page and whether the loop was left
ScrapeIter(src, last_seen, page, rows) ==
  LET parsed == FetchPage(src, page)
      stop_index == IF Truthy(last_seen) THEN StopIndex(parsed, last_seen) ELSE 0
  IN  IF parsed = << >>
        THEN [rows |-> rows, page |-> page, done |-> TRUE]
      ELSE IF stop_index # 0
        THEN [rows |-> rows \o SubSeq(parsed, 1, stop_index - 1),
              page |-> page, done |-> TRUE]
      ELSE [rows |-> rows \o parsed, page |-> page + 1, done |-> FALSE]

RECURSIVE ScrapeFrom(_, _, _, _, _)
ScrapeFrom(src, last_seen, cap, page, rows) ==
  IF page > cap THEN rows
  ELSE LET it == ScrapeIter(src, last_seen, page, rows)
       IN  IF it.done THEN it.rows
           ELSE ScrapeFrom(src, last_seen, cap, it.page, it.rows)

\* _scrape_until(last_seen) as handle_scrape_new_data calls it
ScrapeUntil(src, last_seen) == ScrapeFrom(src, last_seen, max_pages, 1, << >>)

(***************************************************************************)
(* Messages.  A body is what json.loads makes of it: "not_json" (it        *)
(* raises), "array" (valid JSON that is no object) or "object" with its    *)
(* kind and the since entry of its payload.                                *)
(***************************************************************************)
Body(form, kind, since) == [form |-> form, kind |-> kind, since |-> since]

\* publish_task(kind, payload={}) of the web service
WebBody(kind) == Body("object", kind, None)

\* bodies another producer may put on tasks_q
ForeignBodies ==
  { Body("not_json", "", None),
    Body("array", "", None),
    Body("object", "resize_images", None),
    Body("object", PULL_TASK_NAME, "u1") }

(***************************************************************************)
(* Workers.                                                                *)
(***************************************************************************)
NoRows == [u \in Urls |-> 0]

InitWorker ==
  [pc |-> "boot",        \* position in main / _on_message
   msg |-> 0,            \* delivery being handled (0: none)
   batch |-> << >>,      \* batch of handle_scrape_new_data
   idx |-> 0,            \* entries of batch already looped over
   inserted |-> 0,
   newest_url |-> None,
   rows |-> NoRows,      \* applicants rows inserted, not yet committed
   wm |-> << >>,         \* uncommitted watermark write
   st |-> << >>,         \* uncommitted job_status write (of the message's kind)
   broken |-> FALSE,     \* the psycopg connection is lost
   crash |-> ""]         \* where the process died

KindOf(w) == IF wk[w].msg = 0 THEN "" ELSE msgs[wk[w].msg].kind

\* another open transaction holds the row lock of job_status[kind] (w = 0:
\* the asking transaction is one of the web service)
StatusLocked(w, kind) ==
  \E o \in Workers \ {w} : wk[o].st # << >> /\ KindOf(o) = kind

\* another open transaction holds an uncommitted applicants row with this url
\* (the unique index applicants_url_unique_idx makes the inserter wait)
UrlLocked(w, url) == \E o \in Workers \ {w} : wk[o].rows[url] > 0

\* pull_status_state of a fresh web process
IdleStatus == [running |-> FALSE, message |-> "Idle", progress |-> DefaultProgress]

\* _update_pull_status(message, progress): << >> stands for a progress that
\* is not given; the keys given overwrite the stored ones
UpdatePullStatus(state, message, progress) ==
  [state EXCEPT !.message = message,
                !.progress = IF progress = << >> THEN @
                             ELSE [k \in DOMAIN @ |->
                                    IF k \in DOMAIN progress THEN progress[k]
                                    ELSE @[k]]]

\* no run of _scrape_until / insert_entries outside the workers
NoFetch == [pc |-> "off", last_seen |-> None, page |-> 1, rows |-> << >>,
            fetched |-> 0, requested |-> << >>]
NoIngest == [pc |-> "off"]
NoScrape == [pc |-> "off"]
NoStart == [up |-> TRUE, main |-> [w \in Workers |-> [pc |-> "off"]]]
NoPull == [pc |-> "off"]
NoParse == [pc |-> "off"]
NoPublish == [pc |-> "off"]
NoRead == [pc |-> "off"]

\* broker, web process and workers at start
ServiceInit ==
  /\ watermark = None
  /\ job_status = [k \in Kinds |-> NoRow]
  /\ msgs = << >>
  /\ queue = << >>
  /\ fate = << >>
  /\ deliveries = << >>
  /\ outcome = << >>
  /\ web = [pc |-> "idle", response |-> 0,
            pull_status_state |-> IdleStatus]
  /\ wk = [w \in Workers |-> InitWorker]

Init ==
  /\ \E d \in Deployments : source = d.source /\ seed = d.seed
  /\ applicants = NoRows
  /\ ServiceInit
  /\ fetcher = NoFetch
  /\ ingest = NoIngest
  /\ scraper = NoScrape
  /\ starter = NoStart
  /\ pullsvc = NoPull
  /\ parser = NoParse
  /\ publisher = NoPublish
  /\ reader = NoRead


(***************************************************************************)
(* Store and broker helpers.                                               *)
(***************************************************************************)
\* basic_publish to exchange tasks / queue tasks_q
EnqueueTwice(body) ==
  /\ msgs' = msgs \o <<body, body>>
  /\ queue' = queue \o <<Len(msgs) + 1, Len(msgs) + 2>>
  /\ fate' = fate \o <<"ready", "ready">>
  /\ deliveries' = deliveries \o <<0, 0>>
  /\ outcome' = outcome \o <<"none", "none">>

Enqueue(body) ==
  /\ msgs' = Append(msgs, body)
  /\ queue' = Append(queue, Len(msgs) + 1)
  /\ fate' = Append(fate, "ready")
  /\ deliveries' = Append(deliveries, 0)
  /\ outcome' = Append(outcome, "none")

\* messages published so far, counting the one a web request is about to
\* publish (the bound MaxMsgs is on this number)
Published == Len(msgs) + (IF web.pc = "idle" THEN 0 ELSE 1)

\* the worker is back in start_consuming, waiting for the next delivery
Consuming == [InitWorker EXCEPT !.pc = "consuming"]

\* the exception left _on_message and start_consuming: the process is gone,
\* its connections are closed, its open transaction is aborted by the server
Crashed(site) == [InitWorker EXCEPT !.pc = "crashed", !.crash = site]

\* first url of a row list that is not empty (newest_url of the loops)
RECURSIVE FirstUrl(_)
FirstUrl(rows) ==
  IF rows = << >> THEN None
  ELSE IF Truthy(Head(rows)) THEN Head(rows)
  ELSE FirstUrl(Tail(rows))

\* the urls of a row list that are not empty
UrlsOf(rows) == {rows[i] : i \in 1..Len(rows)} \ {NoUrl}

(***************************************************************************)
(* The web service (dashboard.py of module_6).                             *)
(***************************************************************************)
\* pull_data, up to the commit of the Queued status
PullDataQueued ==
  /\ web.pc = "idle"
  /\ Published < MaxMsgs
  /\ ~StatusLocked(0, PULL_TASK_NAME)
  /\ job_status' = [job_status EXCEPT ![PULL_TASK_NAME] =
       StatusRow("queued", "Pull request queued. Worker will process it shortly.",
                 DefaultProgress)]
  /\ web' = [web EXCEPT !.pc = "pull_publish", !.response = 0]
  /\ UNCHANGED <<env, applicants, watermark, broker, wk>>

\* an except branch that leaves the status row as it is
StillQueued(kind, text) == job_status[kind]
\* except Exception as exc: _set_job_status(kind, "failed", f"{text}: {exc}",
\* _default_progress())
UnableToQueue(kind, text) == StatusRow("failed", text, DefaultProgress)

\* pull_data, from publish_task on
PullDataPublish ==
  /\ web.pc = "pull_publish"
  /\ \/ /\ Enqueue(WebBody(PULL_TASK_NAME))
        /\ web' = [web EXCEPT
                     !.pc = "idle", !.response = 202,
                     !.pull_status_state = UpdatePullStatus(
                        @, "Pull request queued. Worker will process it shortly.",
                        DefaultProgress)]
        /\ UNCHANGED job_status
     \/ /\ ~StatusLocked(0, PULL_TASK_NAME)
        /\ job_status' = [job_status EXCEPT ![PULL_TASK_NAME] =
             UnableToQueue(PULL_TASK_NAME, "Unable to queue pull task")]
        /\ web' = [web EXCEPT !.pc = "idle", !.response = 503]
        /\ UNCHANGED broker
  /\ UNCHANGED <<env, applicants, watermark, wk>>

\* a gate that is always open
PullNeverRunning == FALSE
\* _get_shared_pull_status()["running"]
PullRunning == job_status[PULL_TASK_NAME].state \in {"queued", "running"}

\* update_analysis, up to the commit of the Queued status
UpdateAnalysisQueued ==
  /\ web.pc = "idle"
  /\ Published < MaxMsgs
  /\ \/ /\ PullRunning
        /\ web' = [web EXCEPT !.pc = "idle", !.response = 409]
        /\ UNCHANGED job_status
     \/ /\ ~PullRunning
        /\ ~StatusLocked(0, ANALYTICS_TASK_NAME)
        /\ job_status' = [job_status EXCEPT ![ANALYTICS_TASK_NAME] =
             StatusRow("queued",
                       "Analysis refresh queued. Worker will process it shortly.",
                       DefaultProgress)]
        /\ web' = [web EXCEPT !.pc = "ua_publish", !.response = 0]
  /\ UNCHANGED <<env, applicants, watermark, broker, wk>>

\* update_analysis, from publish_task on
UpdateAnalysisPublish ==
  /\ web.pc = "ua_publish"
  /\ \/ /\ Enqueue(WebBody(ANALYTICS_TASK_NAME))
        /\ web' = [web EXCEPT
                     !.pc = "idle", !.response = 202,
                     !.pull_status_state = UpdatePullStatus(
                        @, "Analysis refresh queued. Worker will process it shortly.",
                        << >>)]
        /\ UNCHANGED job_status
     \/ /\ ~StatusLocked(0, ANALYTICS_TASK_NAME)
        /\ job_status' = [job_status EXCEPT ![ANALYTICS_TASK_NAME] =
             UnableToQueue(ANALYTICS_TASK_NAME, "Unable to queue analytics task")]
        /\ web' = [web EXCEPT !.pc = "idle", !.response = 503]
        /\ UNCHANGED broker
  /\ UNCHANGED <<env, applicants, watermark, wk>>

\* any other producer publishing to the durable queue tasks_q
ForeignPublish ==
  /\ Published < MaxMsgs
  /\ \E body \in ForeignBodies : Enqueue(body)
  /\ UNCHANGED <<env, store, web, wk>>


(***************************************************************************)
(* The worker (consumer.py).                                               *)
(***************************************************************************)
\* rowcount of INSERT_APPLICANT_SQL (ON CONFLICT DO NOTHING against the unique
\* index on url), given whether a row with the url is visible to the statement
NoUniqueIndex(present) == 1
\* a statement that stores nothing
InsertsNothing(present) == 0
OnConflictDoNothing(present) == IF present THEN 0 ELSE 1

\* if newest_url is None: newest_url = url
NewestUrlLast(newest_url, url) == url
NewestUrl(newest_url, url) == IF newest_url = None THEN url ELSE newest_url

\* inserted += max(cursor.rowcount, 0)
CountEveryRow(inserted, rowcount) == inserted + 1
CountInserted(inserted, rowcount) ==
  inserted + (IF rowcount > 0 THEN rowcount ELSE 0)

\* the insert loop of _seed_if_empty over the rows of the seed file
RECURSIVE SeedRows(_, _)
SeedRows(rows, table) ==
  IF rows = << >> THEN table
  ELSE LET url == Head(rows)
       IN  IF ~Truthy(url) THEN SeedRows(Tail(rows), table)
           ELSE SeedRows(Tail(rows),
                  [table EXCEPT ![url] = @ + OnConflictDoNothing(@ > 0)])

\* main: _seed_if_empty up to the decision to seed; without seeding, on to
\* the broker connection and start_consuming (the worker processes being
\* interchangeable, they are started in the order of their numbers)
MainSeedCheck(w) ==
  /\ wk[w].pc = "boot"
  /\ \A o \in Workers : o < w => wk[o].pc # "boot"
  /\ LET existing == \E u \in Urls : applicants[u] > 0
     IN  wk' = [wk EXCEPT ![w].pc =
                  IF existing \/ seed = << >> THEN "consuming" ELSE "seed"]
  /\ UNCHANGED <<env, store, broker, web>>

\* main: the inserts, the watermark and the commit of _seed_if_empty, then on
\* to the broker connection and start_consuming
MainSeedInsert(w) ==
  /\ wk[w].pc = "seed"
  /\ \A u \in UrlsOf(seed) : ~UrlLocked(w, u)
  /\ \A o \in Workers \ {w} : wk[o].wm = << >>
  /\ applicants' = SeedRows(seed, applicants)
  /\ watermark' = IF Truthy(FirstUrl(seed)) THEN FirstUrl(seed) ELSE watermark
  /\ wk' = [wk EXCEPT ![w].pc = "consuming"]
  /\ UNCHANGED <<env, job_status, broker, web>>

\* the handlers registry of _on_message
Handlers == {PULL_TASK_NAME, ANALYTICS_TASK_NAME}

\* a registry that finds a handler for every kind
HandlerForAny(kind) == TRUE
\* handlers.get(kind) is not None
HasHandler(kind) == kind \in Handlers

\* the unacknowledged delivery of a dead consumer goes back to the queue
Requeue(m) ==
  /\ queue' = <<m>> \o queue
  /\ fate' = [fate EXCEPT ![m] = "ready"]

\* a channel without prefetch limit: deliveries also reach a consumer that
\* still holds an unacknowledged one
DispatchUnlimited(w) ==
  /\ wk[w].pc \notin {"boot", "seed", "crashed"}
  /\ queue # << >>

\* basic_qos(prefetch_count=1), basic_consume(auto_ack=False): the head of the
\* queue goes to a consumer that holds no unacknowledged delivery (the
\* consumers being interchangeable, to the first of them)
Dispatch(w) ==
  /\ wk[w].pc = "consuming"
  /\ \A o \in Workers : wk[o].pc = "consuming" => w <= o
  /\ queue # << >>

\* _on_message, from the delivery to the call of the handler
OnMessage(w) ==
  /\ Dispatch(w)
  /\ LET m == Head(queue)
         body == msgs[m]
     IN  /\ deliveries' = [deliveries EXCEPT ![m] = @ + 1]
         /\ \/ /\ body.form # "object"
               /\ wk' = [wk EXCEPT ![w] = Crashed("decode")]
               /\ UNCHANGED <<queue, fate>>
            \/ /\ body.form = "object"
               /\ ~HasHandler(body.kind)
               /\ queue' = Tail(queue)
               /\ fate' = [fate EXCEPT ![m] = "nacked"]
               /\ UNCHANGED wk
            \/ /\ body.form = "object"
               /\ HasHandler(body.kind)
               /\ queue' = Tail(queue)
               /\ fate' = [fate EXCEPT ![m] = "unacked"]
               /\ wk' = [wk EXCEPT ![w] = [Consuming EXCEPT !.pc = "handler", !.msg = m]]
            \/ /\ body.form = "object"
               /\ HasHandler(body.kind)
               /\ wk' = [wk EXCEPT ![w] = Crashed("connect")]
               /\ UNCHANGED <<queue, fate>>
  /\ UNCHANGED <<env, store, msgs, outcome, web>>

\* the handler (or the commit) raises: _on_message enters its except branch,
\* the transaction still open; lost: the error is the loss of the connection
Raises(w, st, lost, how) ==
  /\ wk' = [wk EXCEPT ![w].st = st, ![w].broken = lost, ![w].pc = "except"]
  /\ outcome' = [outcome EXCEPT ![wk[w].msg] = how]

\* handle_scrape_new_data up to the batch returned by _scrape_until
HandleScrapeBegin(w) ==
  /\ wk[w].pc = "handler"
  /\ KindOf(w) = PULL_TASK_NAME
  /\ LET running == StatusRow("running", "Pull Data is running.", DefaultProgress)
         since_url == msgs[wk[w].msg].since
         last_seen == IF Truthy(since_url) THEN since_url ELSE watermark
     IN  \/ /\ ~StatusLocked(w, PULL_TASK_NAME)
            /\ wk' = [wk EXCEPT ![w].st = <<running>>,
                                ![w].batch = ScrapeUntil(source, last_seen),
                                ![w].pc = "insert"]
            /\ UNCHANGED outcome
         \/ /\ ~StatusLocked(w, PULL_TASK_NAME)      \* _fetch_html raises
            /\ Raises(w, <<running>>, FALSE, "raised")
         \/ Raises(w, << >>, TRUE, "raised")          \* the connection is lost
  /\ UNCHANGED <<env, store, msgs, queue, fate, deliveries, web>>

\* one turn of the loop "for entry in batch" of handle_scrape_new_data
InsertEntry(w) ==
  /\ wk[w].pc = "insert"
  /\ wk[w].idx < Len(wk[w].batch)
  /\ LET url == wk[w].batch[wk[w].idx + 1]
         rowcount == OnConflictDoNothing(applicants[url] > 0 \/ wk[w].rows[url] > 0)
     IN  \/ /\ ~Truthy(url)
            /\ wk' = [wk EXCEPT ![w].idx = @ + 1]
            /\ UNCHANGED outcome
         \/ /\ Truthy(url)
            /\ ~UrlLocked(w, url)
            /\ wk' = [wk EXCEPT ![w].idx = @ + 1,
                                ![w].newest_url = NewestUrl(@, url),
                                ![w].rows[url] = @ + rowcount,
                                ![w].inserted = CountInserted(@, rowcount)]
            /\ UNCHANGED outcome
         \/ /\ Truthy(url)                           \* the statement raises
            /\ Raises(w, wk[w].st, FALSE, "raised")
  /\ UNCHANGED <<env, store, msgs, queue, fate, deliveries, web>>

\* handle_scrape_new_data after the loop: watermark and Completed status
FinishScrape(w) ==
  /\ wk[w].pc = "insert"
  /\ wk[w].idx = Len(wk[w].batch)
  /\ Truthy(wk[w].newest_url) => \A o \in Workers \ {w} : wk[o].wm = << >>
  /\ wk' = [wk EXCEPT
       ![w].wm = IF Truthy(wk[w].newest_url) THEN <<wk[w].newest_url>> ELSE << >>,
       ![w].st = <<StatusRow("completed", "Pull Data completed.",
                             CompletedProgress(wk[w].batch, wk[w].inserted))>>,
       ![w].pc = "commit"]
  /\ UNCHANGED <<env, store, broker, web>>

\* handle_recompute_analytics
HandleRecompute(w) ==
  /\ wk[w].pc = "handler"
  /\ KindOf(w) = ANALYTICS_TASK_NAME
  /\ LET running == StatusRow("running", "Analysis refresh is running.",
                              DefaultProgress)
     IN  \/ /\ ~StatusLocked(w, ANALYTICS_TASK_NAME)
            /\ wk' = [wk EXCEPT
                 ![w].st = <<StatusRow("completed", "Analysis refresh completed.",
                                       DefaultProgress)>>,
                 ![w].pc = "commit"]
            /\ UNCHANGED outcome
         \/ /\ ~StatusLocked(w, ANALYTICS_TASK_NAME) \* the refresh raises
            /\ Raises(w, <<running>>, FALSE, "raised")
         \/ Raises(w, << >>, TRUE, "raised")          \* the connection is lost
  /\ UNCHANGED <<env, store, msgs, queue, fate, deliveries, web>>

\* _on_message: conn.commit() after the handler returned
Commit(w) ==
  /\ wk[w].pc = "commit"
  /\ LET m == wk[w].msg
         kind == KindOf(w)
     IN  \/ /\ applicants' = [u \in Urls |-> applicants[u] + wk[w].rows[u]]
            /\ watermark' = IF wk[w].wm # << >> THEN wk[w].wm[1] ELSE watermark
            /\ job_status' = [job_status EXCEPT ![kind] = wk[w].st[1]]
            /\ outcome' = [outcome EXCEPT ![m] = "committed"]
            /\ wk' = [wk EXCEPT ![w] = [Consuming EXCEPT !.pc = "ack", !.msg = m]]
         \/ /\ \E lost \in BOOLEAN : Raises(w, wk[w].st, lost, "commit_failed")
            /\ UNCHANGED store
  /\ UNCHANGED <<env, msgs, queue, fate, deliveries, web>>

\* basic_ack may be sent at this position of _on_message
AckEarly(w) == wk[w].pc \in {"commit", "ack"}
AckReady(w) == wk[w].pc = "ack"

\* _on_message: ch.basic_ack
Ack(w) ==
  /\ AckReady(w)
  /\ fate' = [fate EXCEPT ![wk[w].msg] = "acked"]
  /\ wk' = [wk EXCEPT ![w] = Consuming]
  /\ UNCHANGED <<env, store, msgs, queue, deliveries, outcome, web>>

\* a rollback that undoes nothing
RollbackSkipped(pending, nothing) == pending
\* conn.rollback(): what the open transaction holds afterwards
RolledBack(pending, nothing) == nothing

\* _on_message, except branch: conn.rollback(); on a lost connection it raises
\* and the exception leaves _on_message (batch, idx and inserted stay as the
\* handler left them when it raised, for the record: its frame is gone)
Rollback(w) ==
  /\ wk[w].pc = "except"
  /\ LET m == wk[w].msg
     IN  \/ /\ ~wk[w].broken
            /\ wk' = [wk EXCEPT ![w] =
                 [Consuming EXCEPT !.pc = "set_failed", !.msg = m,
                                   !.batch = wk[w].batch, !.idx = wk[w].idx,
                                   !.inserted = wk[w].inserted,
                                   !.rows = RolledBack(wk[w].rows, NoRows),
                                   !.wm = RolledBack(wk[w].wm, << >>)]]
            /\ UNCHANGED <<queue, fate>>
         \/ /\ wk[w].broken
            /\ wk' = [wk EXCEPT ![w] = Crashed("except")]
            /\ Requeue(m)
  /\ UNCHANGED <<env, store, msgs, deliveries, outcome, web>>

\* _on_message, except branch: _ensure_schema, Failed status, commit (of
\* whatever the transaction of conn holds)
SetFailed(w) ==
  /\ wk[w].pc = "set_failed"
  /\ LET m == wk[w].msg
         kind == KindOf(w)
     IN  \/ /\ ~StatusLocked(w, kind)
            /\ job_status' = [job_status EXCEPT ![kind] =
                 StatusRow("failed", kind \o " failed.", FailedProgress)]
            /\ applicants' = [u \in Urls |-> applicants[u] + wk[w].rows[u]]
            /\ watermark' = IF wk[w].wm # << >> THEN wk[w].wm[1] ELSE watermark
            /\ wk' = [wk EXCEPT ![w].pc = "nack", ![w].rows = NoRows,
                                ![w].wm = << >>]
            /\ UNCHANGED <<queue, fate>>
         \/ /\ wk' = [wk EXCEPT ![w] = Crashed("except")]   \* the write raises
            /\ Requeue(m)
            /\ UNCHANGED store
  /\ UNCHANGED <<env, msgs, deliveries, outcome, web>>

\* _on_message, except branch: ch.basic_nack(requeue=False)
Nack(w) ==
  /\ wk[w].pc = "nack"
  /\ fate' = [fate EXCEPT ![wk[w].msg] = "nacked"]
  /\ wk' = [wk EXCEPT ![w] = Consuming]
  /\ UNCHANGED <<env, store, msgs, queue, deliveries, outcome, web>>

Next ==
  \/ PullDataQueued
  \/ PullDataPublish
  \/ UpdateAnalysisQueued
  \/ UpdateAnalysisPublish
  \/ ForeignPublish
  \/ \E w \in Workers :
       \/ MainSeedCheck(w)
       \/ MainSeedInsert(w)
       \/ OnMessage(w)
       \/ HandleScrapeBegin(w)
       \/ InsertEntry(w)
       \/ FinishScrape(w)
       \/ HandleRecompute(w)
       \/ Commit(w)
       \/ Ack(w)
       \/ Rollback(w)
       \/ SetFailed(w)
       \/ Nack(w)

Spec == Init /\ [][Next]_vars


(***************************************************************************)
(* Properties of the queue protocol (specification Spec).                  *)
(***************************************************************************)
Msgs == 1..Len(msgs)
Registered(m) == msgs[m].form = "object" /\ msgs[m].kind \in Handlers
PullState == job_status[PULL_TASK_NAME].state

\* exactly one message was ever published, by one POST /pull-data
OnePull == msgs = <<WebBody(PULL_TASK_NAME)>>

\* C1: after one POST /pull-data, the committed states of job scrape_new_data
\* that a polling reader sees while the worker handles the message are
\* Queued, then Running, then Completed or Failed: every change of the
\* committed state made by a worker is Queued -> Running, Running -> Completed
\* or Running -> Failed.
C1_QueuedRunningTerminal ==
  [][(OnePull /\ wk' # wk /\ PullState' # PullState)
       => <<PullState, PullState'>> \in
            { <<"queued", "running">>, <<"running", "completed">>,
              <<"running", "failed">> }]_vars

\* C2: when the handler of a message of a registered kind (or the commit after
\* it) raised, the message is negative-acknowledged without requeue: it is
\* never acknowledged, never back in the queue and never delivered again.
C2_HandlerErrorNacked ==
  \A m \in Msgs :
    (Registered(m) /\ outcome[m] \in {"raised", "commit_failed"})
      => fate[m] \in {"unacked", "nacked"} /\ deliveries[m] = 1

RECURSIVE Keyed(_)
Keyed(rows) ==
  IF rows = << >> THEN 0
  ELSE (IF Truthy(Head(rows)) THEN 1 ELSE 0) + Keyed(Tail(rows))

\* C4: a ScrapeNewData run whose batch carries only urls that are already
\* stored inserts nothing: inserted = 0, every record with a url is counted
\* as a duplicate, and its commit adds no applicants row; for a batch of one
\* stored record the run reports inserted = 0, duplicates = 1.
C4_Idempotent ==
  \A w \in Workers :
    ( /\ wk[w].pc = "commit"
      /\ KindOf(w) = PULL_TASK_NAME
      /\ \A u \in UrlsOf(wk[w].batch) : applicants[u] >= 1 )
    => /\ wk[w].inserted = 0
       /\ wk[w].rows = NoRows
       /\ wk[w].st[1].progress.inserted = 0
       /\ wk[w].st[1].progress.duplicates >= Keyed(wk[w].batch)
       /\ Len(wk[w].batch) = 1 => wk[w].st[1].progress.duplicates = 1

C4_Witness ==
  \E w \in Workers :
    /\ wk[w].pc = "commit"
    /\ KindOf(w) = PULL_TASK_NAME
    /\ wk[w].batch = <<"u2">>
    /\ applicants["u2"] = 1
    /\ wk[w].st[1].progress.duplicates = 1

\* C5: the committed applicants table never holds two rows with the same
\* url, whatever the workers, the redeliveries and the batches.
C5_UniqueUrl == \A u \in Urls : applicants[u] <= 1

C5_Witness ==
  /\ source = RaggedSource
  /\ applicants["u3"] = 1
  /\ \E m \in Msgs :
       /\ msgs[m].kind = PULL_TASK_NAME
       /\ deliveries[m] = 2
       /\ fate[m] = "acked"

\* C8: the commit of a ScrapeNewData run sets the watermark to the first url
\* of the run's batch when the batch carries a url, and leaves it as it was
\* otherwise.
C8_WatermarkNewest ==
  [][\A w \in Workers :
       (wk[w].pc = "commit" /\ wk'[w].pc = "ack" /\ KindOf(w) = PULL_TASK_NAME)
         => watermark' = IF FirstUrl(wk[w].batch) # None
                           THEN FirstUrl(wk[w].batch) ELSE watermark]_vars

C8_Witness ==
  /\ watermark = "u2"
  /\ applicants["u1"] = 1
  /\ \E w \in Workers : wk[w].pc = "ack" /\ KindOf(w) = PULL_TASK_NAME

\* C9: a handler error never takes the worker down: after the failing
\* message the worker is still consuming.
C9_WorkerSurvivesHandlerError ==
  \A w \in Workers : ~(wk[w].pc = "crashed" /\ wk[w].crash = "except")

\* a body that is not valid JSON, not a JSON object, or of no registered kind
Malformed(m) == ~Registered(m)

\* C10: a malformed message is rejected without requeue on its first
\* delivery: once delivered it is negative-acknowledged, and it is never
\* delivered a second time.
C10_PoisonRejectedOnce ==
  \A m \in Msgs :
    (Malformed(m) /\ deliveries[m] > 0)
      => fate[m] = "nacked" /\ deliveries[m] = 1


(***************************************************************************)
(* The fetch loop on its own (specification SpecFetch): _scrape_until      *)
(* runs, one loop iteration per step, over listings of up to MaxFill + 2   *)
(* pages and any watermark.                                                *)
(***************************************************************************)
\* a full listing page: two records whose urls occur nowhere else
Filler(i) == <<"f" \o ToString(i), "g" \o ToString(i)>>

\* the last pages of a listing: empty, short, with a record without url,
\* with a url listed twice
TailPages ==
  { << >>, <<"u1">>, <<"u1", "u2">>, <<"u2", "u1">>, <<NoUrl, "u1">>,
    <<"u1", "u1">> }

Tails ==
  {<< >>} \cup {<<a>> : a \in TailPages}
          \cup {<<a, b>> : a \in TailPages, b \in TailPages}

FetchSources ==
  { [i \in 1..n |-> Filler(i)] \o tail : n \in 0..MaxFill, tail \in Tails }

\* values of last_seen: no watermark row, an empty one, urls of the last
\* pages, a url of the first page, a url the site no longer lists
Watermarks == {None, NoUrl, "u1", "u2", "g1", "gone"}

InitFetch ==
  /\ source \in FetchSources
  /\ seed = NoSeedFile
  /\ applicants = NoRows
  /\ ServiceInit
  /\ ingest = NoIngest
  /\ scraper = NoScrape
  /\ starter = NoStart
  /\ pullsvc = NoPull
  /\ parser = NoParse
  /\ publisher = NoPublish
  /\ reader = NoRead
  /\ \E last_seen \in Watermarks :
       fetcher = [pc |-> "loop", last_seen |-> last_seen, page |-> 1,
                  rows |-> << >>, fetched |-> 0, requested |-> << >>]

\* while page <= max_pages: one iteration
ScrapeLoop ==
  /\ fetcher.pc = "loop"
  /\ fetcher.page <= max_pages
  /\ LET it == ScrapeIter(source, fetcher.last_seen, fetcher.page, fetcher.rows)
     IN  fetcher' = [fetcher EXCEPT !.pc = IF it.done THEN "returned" ELSE "loop",
                                    !.page = it.page,
                                    !.rows = it.rows,
                                    !.fetched = fetcher.page,
                                    !.requested = Append(@, fetcher.page)]
  /\ UNCHANGED <<source, seed, ingest, scraper, starter, pullsvc, parser, publisher, reader, store, broker, web, wk>>

\* the while condition fails: return rows
ScrapeCapReached ==
  /\ fetcher.pc = "loop"
  /\ fetcher.page > max_pages
  /\ fetcher' = [fetcher EXCEPT !.pc = "returned"]
  /\ UNCHANGED <<source, seed, ingest, scraper, starter, pullsvc, parser, publisher, reader, store, broker, web, wk>>

NextFetch == ScrapeLoop \/ ScrapeCapReached

SpecFetch == InitFetch /\ [][NextFetch]_vars

\* the records of pages 1..n of a listing, in order
RECURSIVE PagesUpTo(_, _)
PagesUpTo(src, n) ==
  IF n = 0 THEN << >> ELSE PagesUpTo(src, n - 1) \o FetchPage(src, n)

\* the first page on which the watermark key occurs (0: on none)
WatermarkPage(src, last_seen) ==
  IF Truthy(last_seen)
       /\ \E p \in 1..Len(src) : \E i \in 1..Len(src[p]) : src[p][i] = last_seen
    THEN CHOOSE p \in 1..Len(src) :
           /\ \E i \in 1..Len(src[p]) : src[p][i] = last_seen
           /\ \A q \in 1..(p - 1) : \A i \in 1..Len(src[q]) : src[q][i] # last_seen
    ELSE 0

\* the first page that yields zero records (the page after the last one does)
FirstEmptyPage(src) ==
  CHOOSE e \in 1..(Len(src) + 1) :
    /\ FetchPage(src, e) = << >>
    /\ \A q \in 1..(e - 1) : FetchPage(src, q) # << >>

\* what the run returns when it stops at the watermark on page p
UpToWatermark(src, last_seen, p) ==
  PagesUpTo(src, p - 1)
    \o SubSeq(src[p], 1, StopIndex(src[p], last_seen) - 1)

\* C7 as stated: a run returns all records of the pages before the page p of
\* the watermark, then the records of page p before the match, and fetches
\* no page after p; a run that meets a page without records first stops
\* there and returns the records of the earlier pages.
C7_FetchUpToWatermark ==
  fetcher.pc = "returned" =>
    LET p == WatermarkPage(source, fetcher.last_seen)
        e == FirstEmptyPage(source)
    IN  /\ (p # 0 /\ p < e)
             => /\ fetcher.rows = UpToWatermark(source, fetcher.last_seen, p)
                /\ fetcher.fetched = p
        /\ (p = 0 \/ e < p)
             => /\ fetcher.rows = PagesUpTo(source, e - 1)
                /\ fetcher.fetched <= e

\* C7 amended: the same when the page of the watermark (or the page without
\* records) is among the first max_pages pages; a run never fetches a page
\* after page max_pages, and when neither the watermark nor a page without
\* records is among them it returns the records of pages 1..max_pages.
C7_FetchUpToWatermarkWithinCap ==
  fetcher.pc = "returned" =>
    LET p == WatermarkPage(source, fetcher.last_seen)
        e == FirstEmptyPage(source)
    IN  /\ (p # 0 /\ p < e /\ p <= max_pages)
             => /\ fetcher.rows = UpToWatermark(source, fetcher.last_seen, p)
                /\ fetcher.fetched = p
        /\ ((p = 0 \/ e < p) /\ e <= max_pages)
             => /\ fetcher.rows = PagesUpTo(source, e - 1)
                /\ fetcher.fetched = e
        /\ fetcher.fetched <= max_pages
        /\ ((p = 0 \/ p > max_pages) /\ e > max_pages)
             => /\ fetcher.rows = PagesUpTo(source, max_pages)
                /\ fetcher.fetched = max_pages

C7_Witness ==
  /\ fetcher.pc = "returned"
  /\ fetcher.last_seen = "u1"
  /\ WatermarkPage(source, "u1") = 3
  /\ source[3] = <<"u2", "u1">>
  /\ fetcher.rows = <<"f1", "g1", "f2", "g2", "u2">>
  /\ fetcher.fetched = 3

(***************************************************************************)
(* The batch ingestor on its own (specification SpecIngest): one call of   *)
(* dashboard._insert_cleaned_rows, which runs insert_entries on its own    *)
(* connection, one loop iteration per step.  An entry is its url and       *)
(* whether its INSERT statement succeeds.                                  *)
(***************************************************************************)
Entry(url, ok) == [url |-> url, ok |-> ok]
Entries == {Entry(url, ok) : url \in Urls \cup {NoUrl}, ok \in BOOLEAN}

Batches ==
  UNION {[1..n -> Entries] : n \in 0..MaxBatch}

\* counters that an earlier call left behind
StaleStats == [inserted |-> 0, errors |-> 0, duplicates |-> 1, missing_urls |-> 0]
NoStats == [inserted |-> 0, errors |-> 0, duplicates |-> 0, missing_urls |-> 0]

\* the urls of the rows of a table
Stored(table) == {u \in Urls : table[u] > 0}

InitIngest ==
  /\ source = PlainSource
  /\ seed = NoSeedFile
  /\ applicants \in [Urls -> {0, 1}]
  /\ ServiceInit
  /\ fetcher = NoFetch
  /\ scraper = NoScrape
  /\ starter = NoStart
  /\ pullsvc = NoPull
  /\ parser = NoParse
  /\ publisher = NoPublish
  /\ reader = NoRead
  /\ \E entries \in Batches :
       ingest = [pc |-> "loop", entries |-> entries, index |-> 0,
                 inserted_count |-> 0, error_count |-> 0,
                 loaded |-> Stored(applicants),
                 existing_urls |-> Stored(applicants),
                 stats |-> NoStats, new_entries |-> << >>,
                 txn |-> NoRows]

\* connection.commit()
CommitTxn(table, txn) == [u \in Urls |-> table[u] + txn[u]]

\* for index, entry in enumerate(entries, 1): one iteration
InsertEntriesLoop ==
  /\ ingest.pc = "loop"
  /\ ingest.index < Len(ingest.entries)
  /\ LET index == ingest.index + 1
         entry == ingest.entries[index]
         url == entry.url
         \* should_skip(entry), then continue
         missing == [ingest EXCEPT !.index = index,
                                   !.stats.missing_urls = @ + 1]
         duplicate == [ingest EXCEPT !.index = index,
                                     !.stats.duplicates = @ + 1]
         \* connection.execute succeeded; on_inserted
         inserted == [ingest EXCEPT !.index = index,
                                    !.txn[url] = @ + 1,
                                    !.inserted_count = @ + 1,
                                    !.stats.inserted = ingest.inserted_count + 1,
                                    !.existing_urls = @ \cup {url},
                                    !.new_entries = Append(@, entry)]
         \* connection.execute raised: connection.rollback(); on_insert_error
         failed == [ingest EXCEPT !.index = index,
                                  !.error_count = @ + 1,
                                  !.txn = NoRows,
                                  !.stats.errors = ingest.error_count + 1]
         tried == IF entry.ok THEN inserted ELSE failed
     IN  IF url = NoUrl
           THEN ingest' = missing /\ UNCHANGED applicants
         ELSE IF url \in ingest.existing_urls
           THEN ingest' = duplicate /\ UNCHANGED applicants
         ELSE IF index % commit_every = 0
           THEN /\ applicants' = CommitTxn(applicants, tried.txn)
                /\ ingest' = [tried EXCEPT !.txn = NoRows]
         ELSE ingest' = tried /\ UNCHANGED applicants
  /\ UNCHANGED <<source, seed, fetcher, scraper, starter, pullsvc, parser, publisher, reader, watermark, job_status,
               broker, web, wk>>

\* the final connection.commit(), return inserted_count, error_count;
\* _insert_cleaned_rows copies them into stats
InsertEntriesReturn ==
  /\ ingest.pc = "loop"
  /\ ingest.index = Len(ingest.entries)
  /\ applicants' = CommitTxn(applicants, ingest.txn)
  /\ ingest' = [ingest EXCEPT !.pc = "returned",
                              !.txn = NoRows,
                              !.stats.inserted = ingest.inserted_count,
                              !.stats.errors = ingest.error_count]
  /\ UNCHANGED <<source, seed, fetcher, scraper, starter, pullsvc, parser, publisher, reader, watermark, job_status,
               broker, web, wk>>

NextIngest == InsertEntriesLoop \/ InsertEntriesReturn

SpecIngest == InitIngest /\ [][NextIngest]_vars

\* C6: when insert_entries returns, every record of the batch that has a
\* url, was not stored before and whose INSERT succeeded is stored, errors
\* counts the records whose INSERT failed, and inserted is the number of
\* rows the call added to the table.
C6_FailureIsolated ==
  ingest.pc = "returned" =>
    LET n == Len(ingest.entries)
        valid == {i \in 1..n : /\ ingest.entries[i].ok
                               /\ ingest.entries[i].url # NoUrl
                               /\ ingest.entries[i].url \notin ingest.loaded}
        added == {u \in Urls : applicants[u] > 0 /\ u \notin ingest.loaded}
    IN  /\ \A i \in valid : applicants[ingest.entries[i].url] >= 1
        /\ ingest.stats.inserted = Cardinality(added)
        /\ ingest.stats.errors <= Cardinality({i \in 1..n : ~ingest.entries[i].ok})


(***************************************************************************)
(* Further properties of the queue protocol (specification Spec).          *)
(***************************************************************************)
\* a JSON object whose kind is in no registry
UnknownKind(m) == msgs[m].form = "object" /\ msgs[m].kind \notin Handlers

\* C11: the delivery of a message of an unregistered kind ends in a nack
\* without requeue and changes nothing else: no handler is entered, and the
\* applicants, the watermark and the job_status rows stay as they were.
C11_UnknownKindFrame ==
  [][\A m \in Msgs :
       (UnknownKind(m) /\ deliveries'[m] # deliveries[m])
         => /\ fate'[m] = "nacked"
            /\ \A i \in 1..Len(queue') : queue'[i] # m
            /\ wk' = wk
            /\ outcome' = outcome
            /\ store' = store]_vars

C11_Witness ==
  \E m \in Msgs :
    /\ UnknownKind(m)
    /\ fate[m] = "nacked"
    /\ deliveries[m] = 1
    /\ outcome[m] = "none"
    /\ job_status[PULL_TASK_NAME].state = "queued"

\* C12: the result a ScrapeNewData run of the worker reports counts every
\* record without url as missing and none of them as a duplicate or an error.
C12_MissingCounted ==
  \A w \in Workers :
    (wk[w].pc = "commit" /\ KindOf(w) = PULL_TASK_NAME)
      => LET progress == wk[w].st[1].progress
             missing == Len(wk[w].batch) - Keyed(wk[w].batch)
         IN  /\ progress.missing_urls = missing
             /\ progress.duplicates <= Keyed(wk[w].batch) - progress.inserted
             /\ progress.errors = 0


(***************************************************************************)
(* The two fetch loops of module_6 on one listing (specification           *)
(* SpecPull): a run of the worker's _scrape_until, then a run of the       *)
(* dashboard's _scrape_new_rows (start_page = 1), one loop iteration per   *)
(* step, over finite listings and listings that go on without end.         *)
(***************************************************************************)
EndlessSources ==
  { [i \in 1..n |-> Filler(i)] \o tail \o <<Endless>> :
      n \in 0..2, tail \in Tails }

PullSources == FetchSources \cup EndlessSources

InitPull ==
  /\ source \in PullSources
  /\ seed = NoSeedFile
  /\ applicants = NoRows
  /\ ServiceInit
  /\ ingest = NoIngest
  /\ starter = NoStart
  /\ pullsvc = NoPull
  /\ parser = NoParse
  /\ publisher = NoPublish
  /\ reader = NoRead
  /\ \E last_seen \in Watermarks :
       /\ fetcher = [pc |-> "loop", last_seen |-> last_seen, page |-> 1,
                     rows |-> << >>, fetched |-> 0, requested |-> << >>]
       /\ scraper = [pc |-> "wait", stop_url |-> last_seen, page |-> 1,
                     raw_data |-> << >>, last_page |-> 0, pages_scraped |-> 0,
                     requested |-> << >>]

\* an iteration that goes on to the next page although it met stop_url
ScrapeNewIterPastStop(src, stop_url, run) ==
  LET page_data == FetchPage(src, run.page)
  IN  IF page_data = << >>
        THEN [run EXCEPT !.pc = "returned"]
      ELSE [run EXCEPT !.raw_data = @ \o page_data,
                       !.last_page = run.page,
                       !.pages_scraped = @ + 1,
                       !.page = @ + 1]

\* one iteration of the while True loop of _scrape_new_rows
ScrapeNewIter(src, stop_url, run) ==
  LET page_data == FetchPage(src, run.page)
      stop_index == IF Truthy(stop_url) THEN StopIndex(page_data, stop_url) ELSE 0
  IN  IF page_data = << >>
        THEN [run EXCEPT !.pc = "returned"]
      ELSE IF stop_index # 0
        THEN [run EXCEPT !.raw_data = @ \o SubSeq(page_data, 1, stop_index - 1),
                         !.last_page = run.page,
                         !.pages_scraped = @ + 1,
                         !.pc = "returned"]
      ELSE [run EXCEPT !.raw_data = @ \o page_data,
                       !.last_page = run.page,
                       !.pages_scraped = @ + 1,
                       !.page = @ + 1]

\* pull_gradcafe_data calls _scrape_new_rows(scraper_module, stop_url,
\* progress_callback, start_page)
ScrapeNewStart ==
  /\ fetcher.pc = "returned"
  /\ scraper.pc = "wait"
  /\ scraper' = [scraper EXCEPT !.pc = "loop"]
  /\ UNCHANGED <<source, seed, fetcher, ingest, starter, pullsvc, parser, publisher, reader, store, broker, web, wk>>

\* while True: one iteration (followed up to page MaxPage)
ScrapeNewLoop ==
  /\ scraper.pc = "loop"
  /\ scraper.page <= MaxPage
  /\ scraper' = [ScrapeNewIter(source, scraper.stop_url, scraper)
                   EXCEPT !.requested = Append(@, scraper.page)]
  /\ UNCHANGED <<source, seed, fetcher, ingest, starter, pullsvc, parser, publisher, reader, store, broker, web, wk>>

NextPull == ScrapeLoop \/ ScrapeCapReached \/ ScrapeNewStart \/ ScrapeNewLoop

SpecPull == InitPull /\ [][NextPull]_vars

\* C13: no run of a fetch loop fetches more than max_pages pages: neither the
\* worker's nor the dashboard's loop requests a page after page max_pages,
\* whatever the listing (a run that goes on has no end on a listing without
\* an empty page and without the watermark).
C13_PageCap ==
  /\ fetcher.fetched <= max_pages
  /\ Len(fetcher.requested) <= max_pages
  /\ scraper.pc # "wait" => scraper.pages_scraped <= max_pages

\* the pages 1, 2, ..., n in this order
UpTo(n) == [i \in 1..n |-> i]

\* the run may go on to the page after page n: page n has records and does
\* not hold the key
MayPass(src, key, n) ==
  /\ FetchPage(src, n) # << >>
  /\ ~Truthy(key) \/ StopIndex(FetchPage(src, n), key) = 0

\* C14: the pages a run has requested are 1, 2, ..., n, each once and in
\* this order, and every page before the last requested one had records and
\* did not hold the watermark key; a returned run requests nothing more.
C14_Sequential ==
  /\ fetcher.requested = UpTo(Len(fetcher.requested))
  /\ \A n \in 1..(Len(fetcher.requested) - 1) :
       MayPass(source, fetcher.last_seen, n)
  /\ scraper.requested = UpTo(Len(scraper.requested))
  /\ \A n \in 1..(Len(scraper.requested) - 1) :
       MayPass(source, scraper.stop_url, n)

C14_Witness ==
  /\ fetcher.pc = "returned"
  /\ fetcher.requested = <<1, 2, 3>>
  /\ scraper.pc = "returned"
  /\ scraper.requested = <<1, 2, 3>>
  /\ scraper.stop_url = "u1"
  /\ Len(source) >= 3
  /\ source[3] = <<"u2", "u1">>


(***************************************************************************)
(* Properties of the web service and of the worker's startup.              *)
(***************************************************************************)
\* the job whose publish the web request is at ("" when it is at none)
Publishing ==
  IF web.pc = "pull_publish" THEN PULL_TASK_NAME
  ELSE IF web.pc = "ua_publish" THEN ANALYTICS_TASK_NAME
  ELSE ""

\* C15: a request whose publish_task raised (nothing was put on the queue)
\* is answered 503 and leaves the job's committed status Failed with a
\* message, not Queued; a request answered 202 has put its message on the
\* queue.
C15_PublishFailureSurfaced ==
  [][(Publishing # "" /\ web' # web)
       => IF msgs' = msgs
            THEN /\ web'.response = 503
                 /\ job_status'[Publishing].state = "failed"
                 /\ job_status'[Publishing].message # ""
            ELSE /\ web'.response = 202
                 /\ msgs' = Append(msgs, WebBody(Publishing))
                 /\ queue' = Append(queue, Len(msgs'))]_vars

C15_Witness ==
  /\ web.pc = "idle"
  /\ web.response = 503
  /\ msgs = << >>
  /\ job_status[ANALYTICS_TASK_NAME].state = "failed"
  /\ job_status[PULL_TASK_NAME].state = "absent"


\* the messages delivered and not yet acknowledged or rejected
Unacked == {m \in Msgs : fate[m] = "unacked"}

\* C16: a worker holds at most one delivered-and-unacknowledged message:
\* every such message is the current message of exactly one worker, and a
\* worker is given a message only while it holds none, its previous one
\* having been acknowledged or negative-acknowledged.
C16_OneAtATime ==
  [][/\ \A m \in Unacked' : Cardinality({w \in Workers : wk'[w].msg = m}) = 1
     /\ \A w \in Workers :
          (wk'[w].msg # 0 /\ wk'[w].msg # wk[w].msg)
            => /\ wk[w].msg = 0
               /\ wk[w].pc = "consuming"
               /\ wk[w].st = << >> /\ wk[w].wm = << >> /\ wk[w].rows = NoRows
               /\ \A m \in Unacked : \E o \in Workers \ {w} : wk[o].msg = m]_vars

C16_Witness ==
  /\ wk[2].pc = "boot"
  /\ Len(msgs) = 2
  /\ fate[1] = "acked"
  /\ wk[1].msg = 2
  /\ fate[2] = "unacked"
  /\ wk[1].pc = "insert"


(***************************************************************************)
(* The broker connection loop of main on its own (specification            *)
(* SpecStartup): two worker processes start while the broker is or is not  *)
(* yet accepting connections.                                              *)
(***************************************************************************)
InitStartup ==
  /\ source = PlainSource
  /\ seed = NoSeedFile
  /\ applicants = NoRows
  /\ ServiceInit
  /\ fetcher = NoFetch
  /\ ingest = NoIngest
  /\ scraper = NoScrape
  /\ pullsvc = NoPull
  /\ parser = NoParse
  /\ publisher = NoPublish
  /\ reader = NoRead
  /\ \E up \in BOOLEAN :
       starter = [up |-> up,
                  main |-> [w \in Workers |->
                             [pc |-> "connect", attempt |-> 1, waited |-> 0,
                              connected |-> FALSE, error |-> ""]]]

\* the broker starts to accept connections
BrokerReady ==
  /\ ~starter.up
  /\ starter' = [starter EXCEPT !.up = TRUE]
  /\ UNCHANGED <<source, seed, fetcher, ingest, scraper, pullsvc, parser, publisher, reader, store, broker, web, wk>>

\* a loop that never gives up on a failed attempt
NeverLast(attempt) == FALSE
\* if attempt == RABBITMQ_CONNECT_RETRIES: raise
LastAttempt(attempt) == attempt = RABBITMQ_CONNECT_RETRIES

\* for attempt in range(1, RABBITMQ_CONNECT_RETRIES + 1): one
\* pika.BlockingConnection(params); after the loop, connection is None
\* raises RuntimeError, otherwise on to start_consuming
ConnectAttempt(w) ==
  /\ starter.main[w].pc = "connect"
  /\ LET attempt == starter.main[w].attempt
     IN  starter' =
           IF attempt > RABBITMQ_CONNECT_RETRIES
             THEN [starter EXCEPT !.main[w].pc = "exit",
                                  !.main[w].error = "RuntimeError"]
           ELSE IF starter.up
             THEN [starter EXCEPT !.main[w].pc = "consuming",
                                  !.main[w].connected = TRUE]
           ELSE IF LastAttempt(attempt)
             THEN [starter EXCEPT !.main[w].pc = "exit",
                                  !.main[w].error = "AMQPConnectionError"]
           ELSE [starter EXCEPT !.main[w].pc = "sleep"]
  /\ UNCHANGED <<source, seed, fetcher, ingest, scraper, pullsvc, parser, publisher, reader, store, broker, web, wk>>

\* time.sleep(RABBITMQ_CONNECT_DELAY_SECONDS), then the next attempt
ConnectDelay(w) ==
  /\ starter.main[w].pc = "sleep"
  /\ starter' = [starter EXCEPT
                   !.main[w].pc = "connect",
                   !.main[w].waited = @ + RABBITMQ_CONNECT_DELAY_SECONDS,
                   !.main[w].attempt = @ + 1]
  /\ UNCHANGED <<source, seed, fetcher, ingest, scraper, pullsvc, parser, publisher, reader, store, broker, web, wk>>

NextStartup ==
  \/ BrokerReady
  \/ \E w \in Workers : ConnectAttempt(w) \/ ConnectDelay(w)

SpecStartup == InitStartup /\ [][NextStartup]_vars

\* C17: a starting worker makes at most RABBITMQ_CONNECT_RETRIES connection
\* attempts and has waited RABBITMQ_CONNECT_DELAY_SECONDS after each failed
\* one but the last; it consumes only with a connection, and it exits, with
\* the connection error, exactly when attempt RABBITMQ_CONNECT_RETRIES failed.
C17_BoundedConnect ==
  \A w \in Workers :
    LET run == starter.main[w]
    IN  /\ run.attempt \in 1..RABBITMQ_CONNECT_RETRIES
        /\ run.waited = RABBITMQ_CONNECT_DELAY_SECONDS * (run.attempt - 1)
        /\ run.pc = "consuming" <=> run.connected
        /\ run.connected => starter.up
        /\ run.pc = "exit"
             => /\ run.attempt = RABBITMQ_CONNECT_RETRIES
                /\ run.error = "AMQPConnectionError"
                /\ ~run.connected

C17_Witness ==
  /\ starter.main[1].pc = "exit"
  /\ starter.main[1].attempt = RABBITMQ_CONNECT_RETRIES
  /\ starter.main[2].pc = "consuming"
  /\ starter.main[2].attempt = 3
  /\ starter.main[2].waited = 2 * RABBITMQ_CONNECT_DELAY_SECONDS


(***************************************************************************)
(* The status read path of the web service (GET /pull-status), as a        *)
(* function of the committed job_status row, the process-local             *)
(* pull_status_state and whether create_connection succeeds.               *)
(***************************************************************************)
\* _get_shared_pull_status returning None
NoStatus == << >>

\* a read that never finds the row
SharedStatusUnread(reachable) == NoStatus
\* _get_shared_pull_status(): None when create_connection raises
\* RuntimeError or no row of scrape_new_data exists
GetSharedPullStatus(reachable) ==
  LET row == job_status[PULL_TASK_NAME]
  IN  IF ~reachable \/ row.state = "absent" THEN NoStatus
      ELSE [running |-> row.state \in {"queued", "running"},
            message |-> row.message,
            progress |-> row.progress]

\* _get_pull_status_snapshot()
GetPullStatusSnapshot(reachable) ==
  LET shared_status == GetSharedPullStatus(reachable)
  IN  IF shared_status # NoStatus THEN shared_status
      ELSE web.pull_status_state

\* C18: while no status row of scrape_new_data exists, the status read
\* returns the idle default: not running, message "Idle", zeroed progress.
C18_IdleDefault ==
  job_status[PULL_TASK_NAME].state = "absent"
    => \A reachable \in BOOLEAN : GetPullStatusSnapshot(reachable) = IdleStatus

\* what the committed row of scrape_new_data says
CommittedStatus ==
  [running |-> job_status[PULL_TASK_NAME].state \in {"queued", "running"},
   message |-> job_status[PULL_TASK_NAME].message,
   progress |-> job_status[PULL_TASK_NAME].progress]

C20_FailedKeepsProgress ==
  [][\A w \in Workers :
       (wk[w].pc = "set_failed" /\ wk'[w].pc = "nack")
         => LET progress == job_status'[KindOf(w)].progress
            IN  /\ DOMAIN progress = DOMAIN DefaultProgress
                /\ progress.processed = wk[w].idx
                /\ progress.inserted <= wk[w].inserted]_vars


\* str(exc) of the exception that ended the handling of a message, by how
\* it ended
ErrorText(how) ==
  IF how = "commit_failed" THEN "commit error" ELSE "handler error"

\* part occurs in text
Contains(text, part) ==
  \E i \in 1..(Len(text) - Len(part) + 1) :
    SubSeq(text, i, i + Len(part) - 1) = part

\* C21: the message of the Failed status a worker writes contains the text
\* of the exception that made the handling fail.
C21_FailedCarriesErrorText ==
  [][\A w \in Workers :
       (wk[w].pc = "set_failed" /\ wk'[w].pc = "nack")
         => Contains(job_status'[KindOf(w)].message,
                     ErrorText(outcome[wk[w].msg]))]_vars


\* the step is the 409 answer of update_analysis
Rejected == web.pc = "idle" /\ web'.pc = "idle" /\ web' # web /\ web'.response = 409

C23_PullAlwaysEnqueued ==
  [][/\ (web.pc = "idle" /\ web'.pc = "pull_publish")
          => UNCHANGED <<applicants, watermark, env, broker, wk>>
     /\ (web.pc = "pull_publish" /\ web' # web)
          => /\ \/ /\ web'.response = 202
                   /\ msgs' = Append(msgs, [form |-> "object",
                                            kind |-> PULL_TASK_NAME,
                                            since |-> None])
                \/ /\ web'.response = 503
                   /\ msgs' = msgs
             /\ UNCHANGED <<applicants, watermark, env, wk>>]_vars

\* a second pull request was accepted while the first was still queued
C23_Witness ==
  /\ web.pc = "idle"
  /\ web.response = 202
  /\ msgs = <<WebBody(PULL_TASK_NAME), WebBody(PULL_TASK_NAME)>>
  /\ fate = <<"ready", "ready">>
  /\ job_status[PULL_TASK_NAME].state = "queued"


(***************************************************************************)
(* The in-process pull service of module_5 (specification SpecInProcess):  *)
(* clients post /pull-data to one dashboard process whose                  *)
(* pull_status_state is guarded by pull_state_lock; an accepted request    *)
(* runs _run_pull_job on a thread of its own, or inline when               *)
(* RUN_PULL_IN_BACKGROUND is off.  Every step below is one critical        *)
(* section of the lock.                                                    *)
(***************************************************************************)
MaxPulls == 3
Clients == {1, 2}

InitInProcess ==
  /\ source = PlainSource
  /\ seed = NoSeedFile
  /\ applicants = NoRows
  /\ ServiceInit
  /\ fetcher = NoFetch
  /\ ingest = NoIngest
  /\ scraper = NoScrape
  /\ starter = NoStart
  /\ parser = NoParse
  /\ publisher = NoPublish
  /\ reader = NoRead
  /\ \E background \in BOOLEAN :
       pullsvc = [pc |-> "serving",
                  background |-> background,
                  running |-> FALSE,
                  message |-> "",
                  posted |-> 0,
                  req |-> [c \in Clients |->
                            [pc |-> "idle", response |-> 0, job |-> 0]],
                  jobs |-> << >>]

\* a start that never looks at the flag
TryStartPullUnchecked(running) == TRUE
\* _try_start_pull: if pull_status_state["running"]: return False
TryStartPull(running) == ~running

\* pull_data, up to the return of _try_start_pull
PullDataTryStart(c) ==
  /\ pullsvc.pc = "serving"
  /\ pullsvc.req[c].pc = "idle"
  /\ pullsvc.posted < MaxPulls
  /\ pullsvc' =
       IF TryStartPull(pullsvc.running)
         THEN [pullsvc EXCEPT !.posted = @ + 1,
                              !.running = TRUE,
                              !.req[c] = [pc |-> "started", response |-> 0,
                                          job |-> 0]]
         ELSE [pullsvc EXCEPT !.posted = @ + 1,
                              !.req[c] = [pc |-> "idle", response |-> 409,
                                          job |-> 0]]
  /\ UNCHANGED <<source, seed, fetcher, ingest, scraper, starter, parser, publisher, reader,
                 store, broker, web, wk>>

\* pull_data, from _update_pull_status to thread.start() and the 202, or to
\* the inline call of _run_pull_job
PullDataRun(c) ==
  /\ pullsvc.pc = "serving"
  /\ pullsvc.req[c].pc = "started"
  /\ LET j == Len(pullsvc.jobs) + 1
     IN  pullsvc' =
           [pullsvc EXCEPT
              !.message = "Pull started. Scraping pages and inserting new rows.",
              !.jobs = Append(@, [pc |-> "run", ended |-> "none"]),
              !.req[c] = IF pullsvc.background
                           THEN [pc |-> "idle", response |-> 202, job |-> j]
                           ELSE [pc |-> "inline", response |-> 0, job |-> j]]
  /\ UNCHANGED <<source, seed, fetcher, ingest, scraper, starter, parser, publisher, reader,
                 store, broker, web, wk>>

\* the text _run_pull_job leaves in pull_status_state["message"]
RunMessage(ended, message) ==
  IF ended = "summary" THEN "Pulled pages 1-2. Added 3 new entries;"
  ELSE IF ended = "handled" THEN "Pull failed: " \o "boom"
  ELSE message

\* _run_pull_job, the try block and its except clause: the runner returns
\* a summary, raises one of the errors the clause names, or raises another
RunPullJobTry(j) ==
  /\ pullsvc.pc = "serving"
  /\ j \in 1..Len(pullsvc.jobs)
  /\ pullsvc.jobs[j].pc = "run"
  /\ \E ended \in {"summary", "handled", "unhandled"} :
       pullsvc' = [pullsvc EXCEPT
                     !.message = RunMessage(ended, @),
                     !.jobs[j] = [pc |-> "finally", ended |-> ended]]
  /\ UNCHANGED <<source, seed, fetcher, ingest, scraper, starter, parser, publisher, reader,
                 store, broker, web, wk>>

\* a flag that is cleared on the paths that do not propagate only
ClearedUnlessPropagating(ended, running) ==
  IF ended = "unhandled" THEN running ELSE FALSE
\* finally: _set_pull_in_progress(False)
ClearedFinally(ended, running) == FALSE

\* _run_pull_job, the finally clause
RunPullJobFinally(j) ==
  /\ pullsvc.pc = "serving"
  /\ j \in 1..Len(pullsvc.jobs)
  /\ pullsvc.jobs[j].pc = "finally"
  /\ pullsvc' = [pullsvc EXCEPT
                   !.running = ClearedFinally(pullsvc.jobs[j].ended, @),
                   !.jobs[j].pc = "done"]
  /\ UNCHANGED <<source, seed, fetcher, ingest, scraper, starter, parser, publisher, reader,
                 store, broker, web, wk>>

StartsWith(text, prefix) ==
  Len(text) >= Len(prefix) /\ SubSeq(text, 1, Len(prefix)) = prefix

\* pull_data, after the inline call: 200 or 500 by the message of the
\* snapshot; an exception that _run_pull_job let through is a 500
PullDataInlineReturn(c) ==
  /\ pullsvc.pc = "serving"
  /\ pullsvc.req[c].pc = "inline"
  /\ pullsvc.jobs[pullsvc.req[c].job].pc = "done"
  /\ LET ended == pullsvc.jobs[pullsvc.req[c].job].ended
         ok == ended # "unhandled" /\ ~StartsWith(pullsvc.message, "Pull failed")
     IN  pullsvc' = [pullsvc EXCEPT
                       !.req[c].pc = "idle",
                       !.req[c].response = IF ok THEN 200 ELSE 500]
  /\ UNCHANGED <<source, seed, fetcher, ingest, scraper, starter, parser, publisher, reader,
                 store, broker, web, wk>>

RunPullJob == \E j \in 1..MaxPulls : RunPullJobTry(j) \/ RunPullJobFinally(j)

NextInProcess ==
  \/ \E c \in Clients : PullDataTryStart(c)
  \/ \E c \in Clients : PullDataRun(c)
  \/ \E j \in 1..MaxPulls : RunPullJobTry(j)
  \/ \E j \in 1..MaxPulls : RunPullJobFinally(j)
  \/ \E c \in Clients : PullDataInlineReturn(c)

\* a request that took the flag goes on, a thread that was started runs,
\* and the runner returns or raises
SpecInProcess ==
  /\ InitInProcess
  /\ [][NextInProcess]_vars
  /\ WF_vars(\E c \in Clients : PullDataRun(c))
  /\ WF_vars(RunPullJob)

\* C24: at most one run of _run_pull_job is in progress at any time; a
\* request that finds the running flag set is answered 409 and starts no
\* run; a request that finds it clear takes the flag, so of two requests
\* posted in the same state exactly one wins.
C24_OnePullRunner ==
  /\ [](pullsvc.pc = "serving" =>
          Cardinality({j \in 1..Len(pullsvc.jobs) :
                         pullsvc.jobs[j].pc # "done"}) +
          Cardinality({c \in Clients : pullsvc.req[c].pc = "started"}) =
            IF pullsvc.running THEN 1 ELSE 0)
  /\ [][\A c \in Clients :
          (pullsvc.req[c].pc = "idle" /\ pullsvc'.posted # pullsvc.posted
             /\ pullsvc'.req[c] # pullsvc.req[c] /\ pullsvc.running)
            => /\ pullsvc'.req[c].response = 409
               /\ pullsvc'.req[c].pc = "idle"
               /\ pullsvc'.jobs = pullsvc.jobs
               /\ pullsvc'.running]_vars

\* two requests met: the first runs in the background, the second got 409
C24_Witness ==
  /\ pullsvc.pc = "serving"
  /\ pullsvc.posted = 2
  /\ pullsvc.req[1].response = 202
  /\ pullsvc.req[2].response = 409
  /\ Len(pullsvc.jobs) = 1
  /\ pullsvc.jobs[1].pc = "run"

MaxRows == 4

\* rows a page is made of: two primary rows, a short row, five detail rows
PageRows ==
  LET tr(detail, cells, university, href, status_text, text, paragraph) ==
        [detail |-> detail, cells |-> cells, university |-> university,
         program_name |-> "CS", degree_type |-> "PhD", date_added |-> "Jan 1",
         href |-> href, status_text |-> status_text, text |-> text,
         paragraph |-> paragraph]
  IN  { tr(FALSE, 4, "MIT", "/result/1",
           <<"Accepted", "on", "February", "1">>, <<"MIT">>, None),
        tr(FALSE, 5, "CMU", "",
           <<"Rejected", "on", "March", "3">>, <<"CMU">>, None),
        tr(FALSE, 3, "UCB", "/result/9",
           <<"Accepted">>, <<"Summer", "2025", "GPA", "2.0">>, "short"),
        tr(TRUE, 1, "", "/result/7", << >>,
           <<"Fall", "2026", "American", "GPA", "3.9">>, None),
        tr(TRUE, 1, "", "", << >>,
           <<"GRE", "330", "GRE", "V", "165", "GRE", "AW", "4.5">>, None),
        tr(TRUE, 4, "", "", << >>,
           <<"Spring", "2027", "International", "GPA", "3.5", "note">>, "note"),
        tr(TRUE, 0, "", "", << >>, <<"GRE", "V", "2027">>, None),
        tr(TRUE, 1, "", "", << >>, << >>, "") }

RECURSIVE PagesOf(_)
PagesOf(n) ==
  IF n = 0 THEN {<< >>}
  ELSE LET shorter == PagesOf(n - 1)
       IN  shorter \cup {Append(page, row) :
                           page \in {q \in shorter : Len(q) = n - 1},
                           row \in PageRows}

InitParse ==
  /\ source = PlainSource
  /\ seed = NoSeedFile
  /\ applicants = NoRows
  /\ ServiceInit
  /\ fetcher = NoFetch
  /\ ingest = NoIngest
  /\ scraper = NoScrape
  /\ starter = NoStart
  /\ pullsvc = NoPull
  /\ \E rows \in PagesOf(MaxRows) :
       parser = [pc |-> "scan", rows |-> rows, i |-> 0, results |-> << >>]
  /\ publisher = NoPublish
  /\ reader = NoRead

\* the words of the pages that are runs of digits, and those that are
\* digits around one dot
Digits == {"1", "3", "2025", "2026", "2027", "330", "165"}
Decimals == {"2.0", "3.9", "3.5", "4.5"}

\* what (\d{lo,hi}) takes at the head of a word; "" when it does not match
DigitGroup(word, lo, hi) ==
  LET run == IF word \in Digits THEN Len(word)
             ELSE IF word \in Decimals THEN 1 ELSE 0
  IN  IF run < lo THEN ""
      ELSE SubSeq(word, 1, IF run < hi THEN run ELSE hi)

\* what ([\d.]+) takes at the head of a word
NumberGroup(word) == IF word \in Digits \cup Decimals THEN word ELSE ""

\* re.search(label \s*[:]?[\s]* (group), text): the group of the leftmost
\* match, "" when there is none
SearchAfter(text, labels, group) ==
  LET Group(word) == IF group = "[\\d.]+" THEN NumberGroup(word)
                     ELSE IF group = "\\d{4}" THEN DigitGroup(word, 4, 4)
                     ELSE IF group = "[\\d]{3}" THEN DigitGroup(word, 3, 3)
                     ELSE DigitGroup(word, 2, 3)
      hits == {k \in 1..(Len(text) - 1) :
                 text[k] \in labels /\ Group(text[k + 1]) # ""}
  IN  IF hits = {} THEN [label |-> "", group |-> ""]
      ELSE LET k == CHOOSE h \in hits : \A g \in hits : h <= g
           IN  [label |-> text[k], group |-> Group(text[k + 1])]

\* the facts one detail row holds, each "" (None for the paragraph) when
\* the row does not hold it
FactsOf(row) ==
  LET text == row.text
      season == SearchAfter(text, {"Fall", "Spring", "Summer"}, "\\d{4}")
      has(word) == \E k \in 1..Len(text) : text[k] = word
  IN  [comments |-> row.paragraph,
       term |-> IF season.group = "" THEN ""
                ELSE season.label \o " " \o season.group,
       citizenship |-> IF has("American") THEN "American"
                       ELSE IF has("International") THEN "International"
                       ELSE "",
       GPA |-> SearchAfter(text, {"GPA"}, "[\\d.]+").group,
       GRE_SCORE |-> SearchAfter(text, {"GRE"}, "[\\d]{3}").group,
       GRE_V |-> SearchAfter(text, {"V"}, "[\\d]{2,3}").group,
       GRE_AW |-> SearchAfter(text, {"AW"}, "[\\d.]+").group]

FactNames == {"comments", "term", "citizenship", "GPA", "GRE_SCORE", "GRE_V", "GRE_AW"}

\* a row that is absent from a fact it does not hold
Absent(f) == IF f = "comments" THEN None ELSE ""

\* a fold that stops after the first detail row
RECURSIVE FoldFirstDetail(_, _, _)
FoldFirstDetail(rows, j, facts) ==
  IF j < Len(rows) /\ rows[j + 1].detail
    THEN [j |-> j + 1,
          facts |-> [f \in FactNames |->
                       IF FactsOf(rows[j + 1])[f] # Absent(f)
                         THEN FactsOf(rows[j + 1])[f] ELSE facts[f]]]
    ELSE [j |-> j, facts |-> facts]

\* while j < len(rows) and "tw-border-none" in rows[j].get("class", []):
\* each fact the row holds replaces the value kept so far
RECURSIVE FoldDetails(_, _, _)
FoldDetails(rows, j, facts) ==
  IF j < Len(rows) /\ rows[j + 1].detail
    THEN FoldDetails(rows, j + 1,
           [f \in FactNames |->
              IF FactsOf(rows[j + 1])[f] # Absent(f)
                THEN FactsOf(rows[j + 1])[f] ELSE facts[f]])
    ELSE [j |-> j, facts |-> facts]

\* the words of text after the leftmost "<status> on", joined by blanks
RECURSIVE Joined(_)
Joined(words) ==
  IF words = << >> THEN ""
  ELSE IF Len(words) = 1 THEN words[1]
  ELSE words[1] \o " " \o Joined(Tail(words))
DecisionDate(status_text, status) ==
  LET hits == {k \in 1..(Len(status_text) - 2) :
                 status_text[k] = status /\ status_text[k + 1] = "on"}
  IN  IF hits = {} THEN ""
      ELSE LET k == CHOOSE h \in hits : \A g \in hits : h <= g
           IN  Joined(SubSeq(status_text, k + 2, Len(status_text)))

\* if "Accepted" in status_text: ... elif "Rejected" in status_text: ...
DecisionStatus(status_text) ==
  LET has(word) == \E k \in 1..Len(status_text) : status_text[k] = word
  IN  IF has("Accepted") THEN "Accepted"
      ELSE IF has("Rejected") THEN "Rejected" ELSE ""

\* every row without the marker opens a record
AnyPlainRow(row) == ~row.detail
\* neither of the two continue branches: no marker, at least 4 cells
IsPrimary(row) == ~row.detail /\ row.cells >= 4

\* the dictionary appended for the primary row at index i (0-based)
RecordOf(row, facts) ==
  [program |-> row.program_name \o ", " \o row.university,
   Degree |-> row.degree_type,
   date_added |-> row.date_added,
   url |-> IF row.href = "" THEN ""
           ELSE "https://www.thegradcafe.com" \o row.href,
   status |-> DecisionStatus(row.status_text),
   decision_date |-> DecisionDate(row.status_text,
                                  DecisionStatus(row.status_text)),
   comments |-> facts.comments,
   term |-> facts.term,
   citizenship |-> facts.citizenship,
   GPA |-> facts.GPA,
   GRE_SCORE |-> facts.GRE_SCORE,
   GRE_V |-> facts.GRE_V,
   GRE_AW |-> facts.GRE_AW]

\* one turn of while i < len(rows)
ParsePageRow ==
  /\ parser.pc = "scan"
  /\ parser.i < Len(parser.rows)
  /\ LET row == parser.rows[parser.i + 1]
         fold == FoldDetails(parser.rows, parser.i + 1,
                            [f \in FactNames |-> ""])
     IN  parser' =
           IF ~IsPrimary(row)
             THEN [parser EXCEPT !.i = @ + 1]
             ELSE [parser EXCEPT
                     !.results = Append(@, RecordOf(row, fold.facts)),
                     !.i = fold.j]
  /\ UNCHANGED <<source, seed, fetcher, ingest, scraper, starter, pullsvc, publisher, reader,
                 store, broker, web, wk>>

\* return results
ParsePageReturn ==
  /\ parser.pc = "scan"
  /\ parser.i >= Len(parser.rows)
  /\ parser' = [parser EXCEPT !.pc = "done"]
  /\ UNCHANGED <<source, seed, fetcher, ingest, scraper, starter, pullsvc, publisher, reader,
                 store, broker, web, wk>>

NextParse == ParsePageRow \/ ParsePageReturn
SpecParse == InitParse /\ [][NextParse]_vars


\* positions (1-based) of the primary rows of a page, the detail rows that
\* follow one without a break, and whether a row holds a fact with a value
PrimaryAt(rows) ==
  {k \in 1..Len(rows) : ~rows[k].detail /\ rows[k].cells >= 4}
GroupOf(rows, k) ==
  {m \in (k + 1)..Len(rows) : \A n \in (k + 1)..m : rows[n].detail}
Holds(row, f) == FactsOf(row)[f] \notin {"", None}
\* the position of the r-th primary row
Nth(rows, r) ==
  CHOOSE k \in PrimaryAt(rows) :
    Cardinality({q \in PrimaryAt(rows) : q <= k}) = r

\* C26: the page yields one record per primary row, in page order, each
\* carrying the cells of its primary row and an empty url when the row has
\* no results link; every fact of a record comes from a detail row of its
\* own group, so orphan detail rows and short rows add nothing.
C26_OneRecordPerPrimaryRow ==
  parser.pc = "done" =>
    LET rows == parser.rows
        results == parser.results
    IN  /\ Len(results) = Cardinality(PrimaryAt(rows))
        /\ \A r \in 1..Len(results) :
             LET k == Nth(rows, r)
             IN  /\ results[r].program =
                      rows[k].program_name \o ", " \o rows[k].university
                 /\ results[r].date_added = rows[k].date_added
                 /\ rows[k].href = "" => results[r].url = ""
                 /\ rows[k].href # "" =>
                      results[r].url = "https://www.thegradcafe.com" \o rows[k].href
                 /\ \A f \in FactNames :
                      results[r][f] # "" =>
                        \E m \in GroupOf(rows, k) :
                          FactsOf(rows[m])[f] = results[r][f]

\* an orphan detail row, a primary row without link, a short row and a
\* detail row after it: one record, empty url, no facts
C26_Witness ==
  /\ parser.pc = "done"
  /\ Len(parser.rows) = 4
  /\ parser.rows[1].detail /\ Holds(parser.rows[1], "GPA")
  /\ parser.rows[2].university = "CMU"
  /\ parser.rows[3].cells = 3
  /\ parser.rows[4].detail /\ Holds(parser.rows[4], "GRE_SCORE")
  /\ Len(parser.results) = 1
  /\ parser.results[1].url = ""
  /\ \A f \in FactNames : parser.results[1][f] = ""

\* C27: each fact of a record is the value of the last detail row of its
\* group that holds the fact with a value, and is empty when no row of the
\* group does.
C27_LastDetailWins ==
  parser.pc = "done" =>
    LET rows == parser.rows
        results == parser.results
    IN  \A r \in 1..Len(results) : \A f \in FactNames :
          LET holders == {m \in GroupOf(rows, Nth(rows, r)) : Holds(rows[m], f)}
          IN  IF holders = {} THEN results[r][f] = ""
              ELSE LET last == CHOOSE m \in holders : \A n \in holders : n <= m
                   IN  results[r][f] = FactsOf(rows[last])[f]

\* C28: a primary row whose detail rows hold, between them, a GPA, the
\* three GRE scores, a term and a citizenship yields a record with all six
\* populated and with the program, degree and date of the primary row; a
\* decision cell that contains "Accepted" gives status Accepted and the
\* decision date that follows "Accepted on".
C28_AllFactsPopulated ==
  parser.pc = "done" =>
    LET rows == parser.rows
        results == parser.results
        six == FactNames \ {"comments"}
    IN  /\ Len(results) = Cardinality(PrimaryAt(rows))
        /\ \A r \in 1..Len(results) :
             LET k == Nth(rows, r)
             IN  /\ (\A f \in six : \E m \in GroupOf(rows, k) : Holds(rows[m], f))
                      => /\ \A f \in six : results[r][f] # ""
                         /\ results[r].program # ""
                         /\ results[r].Degree # ""
                         /\ results[r].date_added # ""
                 /\ (\E n \in 1..Len(rows[k].status_text) :
                        rows[k].status_text[n] = "Accepted")
                      => results[r].status = "Accepted"
                 /\ rows[k].status_text = <<"Accepted", "on", "February", "1">>
                      => results[r].decision_date = "February 1"

\* the page of one primary row and two detail rows
C28_Witness ==
  /\ parser.pc = "done"
  /\ Len(parser.rows) = 3
  /\ parser.rows[1].university = "MIT"
  /\ Len(parser.results) = 1
  /\ parser.results[1].GPA = "3.9"
  /\ parser.results[1].GRE_SCORE = "330"
  /\ parser.results[1].GRE_V = "165"
  /\ parser.results[1].GRE_AW = "4.5"
  /\ parser.results[1].term = "Fall 2026"
  /\ parser.results[1].citizenship = "American"
  /\ parser.results[1].status = "Accepted"
  /\ parser.results[1].decision_date = "February 1"


MaxEntries == 105
MaxSkipped == 2
MaxFailing == 1

\* default_should_commit of insert_entries
DefaultShouldCommit(index, inserted, errors) ==
  inserted > 0 /\ inserted % 100 = 0
\* should_commit of _insert_cleaned_rows
DashboardShouldCommit(index, inserted, errors) == index % commit_every = 0

InitCheckpoint ==
  /\ source = PlainSource
  /\ seed = NoSeedFile
  /\ applicants = NoRows
  /\ ServiceInit
  /\ fetcher = NoFetch
  /\ scraper = NoScrape
  /\ starter = NoStart
  /\ pullsvc = NoPull
  /\ parser = NoParse
  /\ publisher = NoPublish
  /\ reader = NoRead
  /\ \E policy \in {"default", "dashboard"} :
       ingest = [pc |-> "loop", policy |-> policy, index |-> 0,
                 inserted_count |-> 0, error_count |-> 0, skipped |-> 0,
                 pending |-> 0]

\* one turn of "for index, entry in enumerate(entries, 1)": entries has
\* one entry more
InsertEntriesTurn ==
  /\ ingest.pc = "loop"
  /\ ingest.index < MaxEntries
  /\ LET index == ingest.index + 1
         commit_check(inserted, errors) ==
           IF ingest.policy = "default"
             THEN DefaultShouldCommit(index, inserted, errors)
             ELSE DashboardShouldCommit(index, inserted, errors)
         checked(run) ==
           IF commit_check(run.inserted_count, run.error_count)
             THEN [run EXCEPT !.pending = 0]
             ELSE run
     IN  \/ /\ ingest.skipped < MaxSkipped          \* should_skip: continue
            /\ ingest' = [ingest EXCEPT !.index = index, !.skipped = @ + 1]
         \/ ingest' = checked([ingest EXCEPT !.index = index,
                                             !.inserted_count = @ + 1,
                                             !.pending = @ + 1])
         \/ /\ ingest.error_count < MaxFailing      \* execute raises: rollback
            /\ ingest' = checked([ingest EXCEPT !.index = index,
                                                !.error_count = @ + 1,
                                                !.pending = 0])
  /\ UNCHANGED <<source, seed, fetcher, scraper, starter, pullsvc, parser, publisher, reader,
                 store, broker, web, wk>>

\* entries is exhausted: the commit after the loop, and the return
InsertEntriesFlush ==
  /\ ingest.pc = "loop"
  /\ ingest' = [ingest EXCEPT !.pc = "returned", !.pending = 0]
  /\ UNCHANGED <<source, seed, fetcher, scraper, starter, pullsvc, parser, publisher, reader,
                 store, broker, web, wk>>

NextCheckpoint == InsertEntriesTurn \/ InsertEntriesFlush
SpecCheckpoint == InitCheckpoint /\ [][NextCheckpoint]_vars

\* C30: at no point of a run of insert_entries are more than 100 inserted
\* rows uncommitted, and after its return none is.
C30_BoundedUncommitted ==
  /\ ingest.pc = "loop" => ingest.pending <= 100
  /\ ingest.pc = "returned" => ingest.pending = 0


\* C32: every committed row of job_status carries a progress with the seven
\* keys processed, inserted, duplicates, missing_urls, errors, pages_scraped
\* and current_page.
C32_ProgressHasAllKeys ==
  \A kind \in Kinds :
    job_status[kind].state # "absent" =>
      DOMAIN job_status[kind].progress =
        {"processed", "inserted", "duplicates", "missing_urls", "errors",
         "pages_scraped", "current_page"}


C34_NoGapBehindWatermark ==
  fetcher.pc = "returned" =>
    LET p == WatermarkPage(source, fetcher.last_seen)
        e == FirstEmptyPage(source)
        newer == IF p # 0 /\ p < e
                   THEN UpToWatermark(source, fetcher.last_seen, p)
                   ELSE PagesUpTo(source, e - 1)
    IN  \A i \in 1..Len(newer) :
          Truthy(newer[i]) =>
            \E j \in 1..Len(fetcher.rows) : fetcher.rows[j] = newer[i]


\* C35: while a scrape_new_data message published by POST /pull-data waits
\* in tasks_q, or a worker is in its handler or about to commit it, the
\* committed status of scrape_new_data is queued or running.
C35_BusyWhilePending ==
  (\E m \in 1..Len(msgs) :
     /\ msgs[m] = WebBody(PULL_TASK_NAME)
     /\ \/ fate[m] = "ready"
        \/ \E w \in Workers :
             wk[w].msg = m /\ wk[w].pc \in {"handler", "insert", "commit"})
    => job_status[PULL_TASK_NAME].state \in {"queued", "running"}

\* C36: in every committed state, a watermark row for the source names the url
\* of a stored applicant row.
C36_WatermarkNamesStoredRow ==
  watermark # None => watermark \in Urls /\ applicants[watermark] > 0

\* a worker committed a scrape that set the watermark to the newest url of the
\* listing, after the seed had stored another row
C36_Witness ==
  /\ watermark = "u3"
  /\ applicants["u3"] > 0
  /\ applicants["u1"] > 0
  /\ \E m \in 1..Len(msgs) : msgs[m] = WebBody(PULL_TASK_NAME) /\ fate[m] = "acked"


(***************************************************************************)
(* The publisher of the web service (publisher.py of module_6): calls of   *)
(* publish_task, one after the other, against a broker that may refuse the *)
(* connection, close the channel on a declaration (an entity that exists   *)
(* with other properties) or lose the connection at any step.              *)
(***************************************************************************)
MaxCalls == 3

\* the steps of _open_channel after conn.channel(), in their order
DeclareSteps == <<"exchange_declare", "queue_declare", "queue_bind">>

\* the step after step i of _open_channel; after the last one _open_channel
\* returns (conn, ch) and publish_task enters its try block
AfterDeclare(i) ==
  IF i < Len(DeclareSteps) THEN DeclareSteps[i + 1] ELSE "basic_publish"

InitPublish ==
  /\ source = PlainSource
  /\ seed = NoSeedFile
  /\ applicants = NoRows
  /\ ServiceInit
  /\ fetcher = NoFetch
  /\ ingest = NoIngest
  /\ scraper = NoScrape
  /\ starter = NoStart
  /\ pullsvc = NoPull
  /\ parser = NoParse
  /\ reader = NoRead
  /\ publisher = [pc |-> "idle",      \* position in publish_task
                  kind |-> "",
                  conn |-> "none",    \* the connection of the call
                  calls |-> 0,
                  sent |-> 0,         \* messages the broker accepted
                  left_open |-> 0,    \* connections of ended calls still open
                  failing |-> FALSE,  \* an exception is passing the finally
                  result |-> "none"]  \* how the last call ended

\* an exception leaves publish_task outside its try block: the call ends and
\* the connection object is dropped as it is
RaisedInOpenChannel(conn) ==
  [publisher EXCEPT !.pc = "idle", !.result = "raised", !.conn = "none",
                    !.left_open = @ + (IF conn = "open" THEN 1 ELSE 0)]

\* publish_task(kind): the body is built
PublishTask(kind) ==
  /\ publisher.pc = "idle"
  /\ publisher.calls < MaxCalls
  /\ publisher' = [publisher EXCEPT !.pc = "connect", !.kind = kind,
                                    !.calls = @ + 1, !.result = "none",
                                    !.failing = FALSE]
  /\ UNCHANGED <<source, seed, fetcher, ingest, scraper, starter, pullsvc,
                 parser, reader, store, broker, web, wk>>

\* _open_channel: pika.BlockingConnection(params)
BlockingConnection ==
  /\ publisher.pc = "connect"
  /\ \/ publisher' = [publisher EXCEPT !.conn = "open", !.pc = "channel"]
     \/ publisher' = RaisedInOpenChannel("none")   \* the broker is not there
  /\ UNCHANGED <<source, seed, fetcher, ingest, scraper, starter, pullsvc,
                 parser, reader, store, broker, web, wk>>

\* _open_channel: conn.channel()
ConnChannel ==
  /\ publisher.pc = "channel"
  /\ \/ publisher' = [publisher EXCEPT !.pc = DeclareSteps[1]]
     \/ publisher' = RaisedInOpenChannel("closed") \* the connection is lost
  /\ UNCHANGED <<source, seed, fetcher, ingest, scraper, starter, pullsvc,
                 parser, reader, store, broker, web, wk>>

\* _open_channel: exchange_declare, queue_declare, queue_bind
DeclareEntity ==
  /\ \E i \in 1..Len(DeclareSteps) :
       /\ publisher.pc = DeclareSteps[i]
       /\ \/ publisher' = [publisher EXCEPT !.pc = AfterDeclare(i)]
          \* the broker closes the channel: the connection stays open
          \/ publisher' = RaisedInOpenChannel("open")
          \/ publisher' = RaisedInOpenChannel("closed") \* the connection is lost
  /\ UNCHANGED <<source, seed, fetcher, ingest, scraper, starter, pullsvc,
                 parser, reader, store, broker, web, wk>>

\* publish_task: ch.basic_publish inside try
BasicPublish ==
  /\ publisher.pc = "basic_publish"
  /\ \/ publisher' = [publisher EXCEPT !.sent = @ + 1, !.pc = "finally"]
     \/ publisher' = [publisher EXCEPT !.failing = TRUE, !.pc = "finally"]
  /\ UNCHANGED <<source, seed, fetcher, ingest, scraper, starter, pullsvc,
                 parser, reader, store, broker, web, wk>>

\* publish_task: finally conn.close(), then the return or the exception of
\* basic_publish; close raises on a connection that is closed already
ConnClose ==
  /\ publisher.pc = "finally"
  /\ \/ publisher' = [publisher EXCEPT
                        !.conn = "none", !.pc = "idle",
                        !.result = IF publisher.failing THEN "raised"
                                   ELSE "returned"]
     \/ publisher' = [publisher EXCEPT !.conn = "none", !.pc = "idle",
                                       !.result = "raised"]
  /\ UNCHANGED <<source, seed, fetcher, ingest, scraper, starter, pullsvc,
                 parser, reader, store, broker, web, wk>>

NextPublish ==
  \/ \E kind \in Kinds : PublishTask(kind)
  \/ BlockingConnection
  \/ ConnChannel
  \/ DeclareEntity
  \/ BasicPublish
  \/ ConnClose

SpecPublish == InitPublish /\ [][NextPublish]_vars

\* C38: publish_task leaves no broker connection open: whenever a call has
\* ended, by return or by exception, every connection it opened is closed.
C38_NoConnectionLeftOpen ==
  publisher.pc = "idle" => publisher.left_open = 0


(***************************************************************************)
(* The status read of the web service (_get_pull_status_snapshot of        *)
(* module_6) against the stored row of scrape_new_data.  progress_json is  *)
(* a text: here the sequence of its tokens; numbers are the tokens "0",    *)
(* "1", ..., None is the token "null".  The texts of the model are JSON    *)
(* objects or no JSON at all.                                              *)
(***************************************************************************)
MaxCounter == 3

\* json.dumps(progress): the pairs, the keys in the order _default_progress
\* and the writers of a progress list them
RECURSIVE DumpPairs(_, _)
DumpPairs(progress, i) ==
  LET order == <<"processed", "inserted", "duplicates", "missing_urls",
                 "errors", "pages_scraped", "current_page">>
  IN  IF i > Len(order) THEN << >>
      ELSE (IF order[i] \notin DOMAIN progress THEN << >>
            ELSE IF order[i] = "current_page" THEN <<order[i], "null">>
            ELSE <<order[i], ToString(progress[order[i]])>>)
           \o DumpPairs(progress, i + 1)

JsonDumps(progress) == <<"{">> \o DumpPairs(progress, 1) \o <<"}">>

\* the text is a JSON object: braces around pairs of a key and a value
IsJsonObject(text) ==
  /\ Len(text) >= 2
  /\ text[1] = "{" /\ text[Len(text)] = "}"
  /\ Len(text) % 2 = 0
  /\ \A i \in 2..(Len(text) - 1) :
       IF i % 2 = 0 THEN text[i] \notin {"{", "}"}
       ELSE text[i] \in {ToString(n) : n \in 0..MaxCounter} \cup {"null"}

\* json.loads(text): the dict (of a key listed twice the last value), or the
\* exception raised
JsonLoads(text) ==
  IF ~IsJsonObject(text) THEN [error |-> "ValueError", value |-> << >>]
  ELSE LET at == {i \in 2..(Len(text) - 1) : i % 2 = 0}
           last(key) == CHOOSE i \in at :
                          /\ text[i] = key
                          /\ \A j \in at : text[j] = key => j <= i
           value(token) == IF token = "null" THEN None
                           ELSE CHOOSE n \in 0..MaxCounter : ToString(n) = token
       IN  [error |-> "none",
            value |-> [key \in {text[i] : i \in at} |->
                         value(text[last(key) + 1])]]

\* a handler that catches nothing
CaughtNothing == {}
\* except (TypeError, ValueError)
CaughtErrors == {"TypeError", "ValueError"}

\* the row SELECT state, message, progress_json returns (state "absent": none)
StoredRow(state, message, progress_json) ==
  [state |-> state, message |-> message, progress_json |-> progress_json]

\* progress_json as the services write it, as another writer may have left
\* it, and cut short
ProgressTexts ==
  { JsonDumps(DefaultProgress),
    JsonDumps(CompletedProgress(<<"u2", "u1">>, 1)),
    JsonDumps(FailedProgress),
    <<"{", "processed", "3", "}">>,
    <<"{", "not-json", "}">>,
    SubSeq(JsonDumps(DefaultProgress), 1, 5),
    << >> }

InitRead ==
  /\ source = PlainSource
  /\ seed = NoSeedFile
  /\ applicants = NoRows
  /\ ServiceInit
  /\ fetcher = NoFetch
  /\ ingest = NoIngest
  /\ scraper = NoScrape
  /\ starter = NoStart
  /\ pullsvc = NoPull
  /\ parser = NoParse
  /\ publisher = NoPublish
  /\ \E reachable \in BOOLEAN,
        row \in {StoredRow("absent", "", << >>)} \cup
                {StoredRow(state, "msg", text) :
                   state \in {"queued", "running", "completed", "failed"},
                   text \in ProgressTexts},
        local \in {IdleStatus,
                   UpdatePullStatus(IdleStatus,
                     "Pull request queued. Worker will process it shortly.",
                     DefaultProgress)} :
       reader = [pc |-> "connect",
                 reachable |-> reachable,   \* create_connection succeeds
                 row |-> row,
                 local |-> local,           \* pull_status_state
                 result |-> << >>]

\* _get_shared_pull_status: create_connection(), None on RuntimeError
ReadConnect ==
  /\ reader.pc = "connect"
  /\ reader' = [reader EXCEPT
                  !.pc = IF reader.reachable THEN "select" ELSE "fallback"]
  /\ UNCHANGED <<source, seed, fetcher, ingest, scraper, starter, pullsvc,
                 parser, publisher, store, broker, web, wk>>

\* _get_shared_pull_status: the SELECT, connection.close(), None without row
ReadSelect ==
  /\ reader.pc = "select"
  /\ reader' = [reader EXCEPT
                  !.pc = IF reader.row.state = "absent" THEN "fallback"
                         ELSE "decode"]
  /\ UNCHANGED <<source, seed, fetcher, ingest, scraper, starter, pullsvc,
                 parser, publisher, store, broker, web, wk>>

\* _get_shared_pull_status: json.loads(progress_json) and the dict returned,
\* which _get_pull_status_snapshot passes on
ReadDecode ==
  /\ reader.pc = "decode"
  /\ LET row == reader.row
         loaded == JsonLoads(row.progress_json)
         status(progress) == [running |-> row.state \in {"queued", "running"},
                              message |-> row.message,
                              progress |-> progress]
     IN  reader' =
           IF loaded.error = "none"
             THEN [reader EXCEPT !.pc = "served", !.result = status(loaded.value)]
           ELSE IF loaded.error \in CaughtErrors
             THEN [reader EXCEPT !.pc = "served",
                                 !.result = status(DefaultProgress)]
           ELSE [reader EXCEPT !.pc = "raised"]
  /\ UNCHANGED <<source, seed, fetcher, ingest, scraper, starter, pullsvc,
                 parser, publisher, store, broker, web, wk>>

\* _get_pull_status_snapshot: shared_status is None, the copy of
\* pull_status_state is returned
ReadFallback ==
  /\ reader.pc = "fallback"
  /\ reader' = [reader EXCEPT !.pc = "served", !.result = reader.local]
  /\ UNCHANGED <<source, seed, fetcher, ingest, scraper, starter, pullsvc,
                 parser, publisher, store, broker, web, wk>>

NextRead == ReadConnect \/ ReadSelect \/ ReadDecode \/ ReadFallback

SpecRead == InitRead /\ [][NextRead]_vars

WorkerNext(w) ==
  \/ MainSeedCheck(w)
  \/ MainSeedInsert(w)
  \/ OnMessage(w)
  \/ HandleScrapeBegin(w)
  \/ InsertEntry(w)
  \/ FinishScrape(w)
  \/ HandleRecompute(w)
  \/ Commit(w)
  \/ Ack(w)
  \/ Rollback(w)
  \/ SetFailed(w)
  \/ Nack(w)

\* a request the web service has begun is handled to its response, too
SpecLive ==
  /\ Init /\ [][Next]_vars
  /\ WF_vars(PullDataPublish \/ UpdateAnalysisPublish)
  /\ \A w \in Workers : WF_vars(WorkerNext(w))

\* the store serves every worker: no connection is refused or lost
StoreAvailable ==
  \A w \in Workers : ~wk[w].broken /\ wk[w].crash \notin {"connect", "except"}

\* C37: with workers that go on and a store that stays available, every job
\* that is Queued with its message published and not yet settled reaches
\* Completed or Failed.
C37_QueuedJobEnds ==
  []StoreAvailable =>
    \A kind \in Kinds :
      (/\ job_status[kind].state = "queued"
       /\ \E m \in 1..Len(msgs) :
            msgs[m] = WebBody(kind) /\ fate[m] \in {"ready", "unacked"})
        ~> job_status[kind].state \in {"completed", "failed"}

====
